---- MODULE Spec2Model ----
(***************************************************************************)
(* Session-and-context persistence layer of the chat agent:                *)
(*   SessionManager   (src/chat_agent/database/persistence.py)             *)
(*   AgentPersistence (src/chat_agent/database/agent_wrapper.py)           *)
(* The committed SQLite database is the three tables sessions, messages    *)
(* and lab_context; the wrapper adds the current-session pointer.          *)
(***************************************************************************)
EXTENDS Integers, Sequences, FiniteSets, TLC

VARIABLES
    sessions,            \* table sessions: session_id -> row
    messages,            \* table messages: sequence of rows, ascending message_id
    lab_context,         \* table lab_context: sequence of rows, ascending context_id
    current_session_id,  \* AgentPersistence.current_session_id (None or Some(id))
    agent_current_session_id,  \* current_session_id of the module agent.py
    clock,               \* CURRENT_TIMESTAMP, in whole seconds
    txn,                 \* the connection scope in flight, with its uncommitted writes
    calls,               \* the calls of concurrent callers that are in progress or done
    ops,                 \* number of calls made so far
    last_call            \* the call that produced this state and how it ended

vars == <<sessions, messages, lab_context, current_session_id, agent_current_session_id,
          clock, txn, calls, ops, last_call>>

-----------------------------------------------------------------------------
\* Bounds of the model

MaxOps == 4          \* calls in one behaviour of the budgeted specifications
MaxClock == 1        \* seconds the clock may advance
MaxNoteLen == 6      \* characters the stored notes may grow to

SessionIds == {"s1", "s2"}
Callers == {"c1", "c2"}
Statuses == {"active", "paused", "completed", "archived"}
Phases == {"reconnaissance", "enumeration"}
\* create_session(user_id: str = "default_user", ...)
default_user == "default_user"

-----------------------------------------------------------------------------
\* Python values: Optional, and the SQL/JSON column encodings

None == <<>>
Some(v) == <<v>>
IsNone(o) == Len(o) = 0
TheValue(o) == o[1]

\* a column holding SQL NULL
NULL == [null |-> TRUE]
\* json.dumps(v): the JSON text of v, stored in a TEXT column
json_dumps(v) == [json |-> v]
\* json.loads(t)
json_loads(t) == t.json
\* a TEXT column holding a plain string
Text(s) == [text |-> s]

\* Python values of the structured message fields (tool_calls, tool_results,
\* metadata), each with its kind: the items of a dict map its keys to its values
py_str(s) == [str |-> s]
py_int(n) == [int |-> n]
py_list(items) == [list |-> items]
py_tuple(items) == [tuple |-> items]
py_dict(items) == [dict |-> items]
kind(v) == CHOOSE k \in DOMAIN v : TRUE

\* not x, for a Python value
is_empty(v) ==
    CASE kind(v) = "str" -> v.str = ""
      [] kind(v) = "int" -> v.int = 0
      [] kind(v) = "list" -> v.list = <<>>
      [] kind(v) = "tuple" -> v.tuple = <<>>
      [] kind(v) = "dict" -> DOMAIN v.dict = {}

\* the key of a JSON object: json.dumps writes an int key as its decimal text
key_text(k) == IF kind(k) = "str" THEN k.str ELSE ToString(k.int)

\* the JSON value json.dumps writes for a Python value: lists and tuples become
\* arrays, dicts become objects with string keys
RECURSIVE to_json(_)
to_json(v) ==
    CASE kind(v) = "str" -> [string |-> v.str]
      [] kind(v) = "int" -> [number |-> v.int]
      [] kind(v) = "list" -> [array |-> [i \in DOMAIN v.list |-> to_json(v.list[i])]]
      [] kind(v) = "tuple" -> [array |-> [i \in DOMAIN v.tuple |-> to_json(v.tuple[i])]]
      [] kind(v) = "dict" ->
             [object |-> [t \in {key_text(k) : k \in DOMAIN v.dict} |->
                             to_json(v.dict[CHOOSE k \in DOMAIN v.dict : key_text(k) = t])]]

\* the Python value json.loads reads from a JSON value: arrays become lists,
\* objects become dicts with str keys
RECURSIVE from_json(_)
from_json(j) ==
    CASE kind(j) = "string" -> py_str(j.string)
      [] kind(j) = "number" -> py_int(j.number)
      [] kind(j) = "array" -> py_list([i \in DOMAIN j.array |-> from_json(j.array[i])])
      [] kind(j) = "object" ->
             py_dict([k \in {py_str(t) : t \in DOMAIN j.object} |->
                         from_json(j.object[k.str])])

\* json.dumps(x) if x else None: None and an empty collection are stored as NULL
optional_json(o) ==
    IF IsNone(o) \/ is_empty(TheValue(o)) THEN NULL ELSE json_dumps(to_json(TheValue(o)))

IsNull(c) == c = NULL

Max(S) == CHOOSE x \in S : \A y \in S : y <= x
Min(S) == CHOOSE x \in S : \A y \in S : x <= y

\* set(seq)
set(seq) == {seq[i] : i \in DOMAIN seq}

\* sorted(list(S)) for a set S of integers
RECURSIVE sorted(_)
sorted(S) == IF S = {} THEN <<>>
             ELSE LET m == Min(S) IN <<m>> \o sorted(S \ {m})

\* str.strip(): leading and trailing whitespace removed
Whitespace == {" ", "\n"}

RECURSIVE lstrip(_)
lstrip(s) == IF Len(s) > 0 /\ s[1] \in Whitespace THEN lstrip(Tail(s)) ELSE s

RECURSIVE rstrip(_)
rstrip(s) == IF Len(s) > 0 /\ s[Len(s)] \in Whitespace
             THEN rstrip(SubSeq(s, 1, Len(s) - 1)) ELSE s

strip(s) == rstrip(lstrip(s))

IsPrefix(p, s) == Len(p) <= Len(s) /\ SubSeq(s, 1, Len(p)) = p

EmptyTable == [id \in {} |-> NULL]

-----------------------------------------------------------------------------
\* The schema (schema.sql): column defaults and referential actions

\* sessions: status DEFAULT 'active', is_archived DEFAULT 0, timestamps DEFAULT CURRENT_TIMESTAMP
schema_session_defaults(now) ==
    [status |-> "active", is_archived |-> 0, updated_at |-> now, last_active |-> now]

\* lab_context: every structured column defaults to NULL
schema_context_defaults(now) ==
    [phase |-> NULL, findings |-> NULL, open_ports |-> NULL, services |-> NULL,
     vulnerabilities |-> NULL, credentials |-> NULL, flags |-> NULL, notes |-> NULL,
     updated_at |-> now]

\* messages.timestamp DEFAULT CURRENT_TIMESTAMP
schema_message_defaults(now) == [timestamp |-> now]

\* sqlite3.connect() opens every connection with foreign-key enforcement off and
\* _get_connection never issues PRAGMA foreign_keys = ON
ForeignKeysEnforced == FALSE

\* AUTOINCREMENT / INTEGER PRIMARY KEY: one more than the largest id in the table
next_rowid(ids) == IF ids = {} THEN 1 ELSE Max(ids) + 1

-----------------------------------------------------------------------------
\* SessionManager: statements and operations over tables

\* INSERT INTO sessions (session_id, ...) VALUES (?, ...)
insert_session(tbl, session_id, user_id, now) ==
    (session_id :> ([user_id |-> user_id] @@ schema_session_defaults(now))) @@ tbl

\* faulty variant: the initial context row is inserted in the wrong phase
insert_initial_context_wrong_phase(ctx, session_id, now) ==
    Append(ctx,
           [context_id |-> next_rowid({ctx[i].context_id : i \in DOMAIN ctx}),
            session_id |-> session_id] @@
           [schema_context_defaults(now) EXCEPT !.phase = Text("enumeration")])

\* INSERT INTO lab_context (session_id, phase) VALUES (?, 'reconnaissance')
insert_initial_context(ctx, session_id, now) ==
    Append(ctx,
           [context_id |-> next_rowid({ctx[i].context_id : i \in DOMAIN ctx}),
            session_id |-> session_id] @@
           [schema_context_defaults(now) EXCEPT !.phase = Text("reconnaissance")])

\* SELECT * FROM sessions WHERE session_id = ?  (fetchone)
get_session(tbl, session_id) ==
    IF session_id \in DOMAIN tbl THEN Some(tbl[session_id]) ELSE None

\* faulty variant: a status update counts as activity
update_session_status_touching(tbl, session_id, status, now) ==
    IF session_id \in DOMAIN tbl
    THEN [tbl EXCEPT ![session_id].status = status, ![session_id].updated_at = now,
                     ![session_id].last_active = now]
    ELSE tbl

\* faulty variant: a completed or archived session keeps its status
update_session_status_final(tbl, session_id, status, now) ==
    IF session_id \in DOMAIN tbl /\ tbl[session_id].status \notin {"completed", "archived"}
    THEN [tbl EXCEPT ![session_id].status = status, ![session_id].updated_at = now]
    ELSE tbl

\* UPDATE sessions SET status = ?, updated_at = CURRENT_TIMESTAMP WHERE session_id = ?
update_session_status(tbl, session_id, status, now) ==
    IF session_id \in DOMAIN tbl
    THEN [tbl EXCEPT ![session_id].status = status, ![session_id].updated_at = now]
    ELSE tbl

\* UPDATE sessions SET is_archived = 1, status = 'archived', updated_at = CURRENT_TIMESTAMP
archive_session(tbl, session_id, now) ==
    IF session_id \in DOMAIN tbl
    THEN [tbl EXCEPT ![session_id].is_archived = 1, ![session_id].status = "archived",
                     ![session_id].updated_at = now]
    ELSE tbl

\* DELETE FROM sessions WHERE session_id = ?
delete_session_row(tbl, session_id) ==
    [id \in DOMAIN tbl \ {session_id} |-> tbl[id]]

\* ON DELETE CASCADE of a dependent table, applied only when foreign keys are enforced
cascade_delete(rows, session_id) ==
    IF ForeignKeysEnforced
    THEN SelectSeq(rows, LAMBDA r : r.session_id # session_id)
    ELSE rows

\* The row SELECT ... WHERE session_id = ? ORDER BY context_id DESC LIMIT 1 yields:
\* its index in the table, 0 when there is none
current_context_index(ctx, session_id) ==
    LET own == {i \in DOMAIN ctx : ctx[i].session_id = session_id}
    IN IF own = {} THEN 0
       ELSE CHOOSE i \in own : \A j \in own : ctx[j].context_id <= ctx[i].context_id

\* if context.get(field): context[field] = json.loads(context[field])
load_json_field(col) == IF IsNull(col) THEN None ELSE Some(json_loads(col))

load_text_field(col) == IF IsNull(col) THEN None ELSE Some(col.text)

\* get_lab_context: None, or Some(dict) with the JSON fields deserialized
get_lab_context(ctx, session_id) ==
    LET i == current_context_index(ctx, session_id)
    IN IF i = 0 THEN None
       ELSE Some([context_id |-> ctx[i].context_id,
                  session_id |-> ctx[i].session_id,
                  phase |-> load_text_field(ctx[i].phase),
                  findings |-> load_json_field(ctx[i].findings),
                  open_ports |-> load_json_field(ctx[i].open_ports),
                  services |-> load_json_field(ctx[i].services),
                  vulnerabilities |-> load_json_field(ctx[i].vulnerabilities),
                  credentials |-> load_json_field(ctx[i].credentials),
                  flags |-> load_json_field(ctx[i].flags),
                  notes |-> load_text_field(ctx[i].notes),
                  updated_at |-> ctx[i].updated_at])

\* the keyword arguments of update_lab_context, all defaulting to None
ContextFields == {"phase", "findings", "open_ports", "services", "vulnerabilities",
                  "credentials", "flags", "notes"}
JsonFields == {"findings", "open_ports", "services", "vulnerabilities", "credentials", "flags"}

NoArgs == [f \in ContextFields |-> None]

\* the value update_lab_context binds to "<field> = ?"
bound_param(field, value) ==
    IF field \in JsonFields THEN json_dumps(value) ELSE Text(value)

\* faulty variant: full replace, the fields not supplied are reset to NULL
replaced_context_row(row, args, now) ==
    LET col(f) == IF IsNone(args[f]) THEN NULL ELSE bound_param(f, TheValue(args[f]))
    IN [context_id |-> row.context_id, session_id |-> row.session_id,
        phase |-> col("phase"), findings |-> col("findings"),
        open_ports |-> col("open_ports"), services |-> col("services"),
        vulnerabilities |-> col("vulnerabilities"), credentials |-> col("credentials"),
        flags |-> col("flags"), notes |-> col("notes"), updated_at |-> now]

\* the row after UPDATE lab_context SET <supplied fields>, updated_at = CURRENT_TIMESTAMP
updated_context_row(row, args, now) ==
    LET col(f) == IF IsNone(args[f]) THEN row[f] ELSE bound_param(f, TheValue(args[f]))
    IN [context_id |-> row.context_id, session_id |-> row.session_id,
        phase |-> col("phase"), findings |-> col("findings"),
        open_ports |-> col("open_ports"), services |-> col("services"),
        vulnerabilities |-> col("vulnerabilities"), credentials |-> col("credentials"),
        flags |-> col("flags"), notes |-> col("notes"), updated_at |-> now]

\* faulty variant: every update inserts a new version row instead of changing the current one
update_lab_context_versioned(ctx, session_id, args, now) ==
    LET i == current_context_index(ctx, session_id)
    IN IF i = 0 THEN ctx
       ELSE IF \A f \in ContextFields : IsNone(args[f]) THEN ctx
       ELSE Append(ctx,
                   [updated_context_row(ctx[i], args, now) EXCEPT
                       !.context_id = next_rowid({ctx[j].context_id : j \in DOMAIN ctx})])

\* update_lab_context(session_id, **args): the lab_context table afterwards
update_lab_context(ctx, session_id, args, now) ==
    LET i == current_context_index(ctx, session_id)
    IN IF i = 0 THEN ctx
       ELSE IF \A f \in ContextFields : IsNone(args[f]) THEN ctx
       ELSE [ctx EXCEPT ![i] = updated_context_row(ctx[i], args, now)]

\* faulty variant: the new row takes the place of the session's stored messages
insert_message_replacing(msgs, session_id, role, content, tool_calls, now) ==
    Append(SelectSeq(msgs, LAMBDA m : m.session_id # session_id),
           [message_id |-> next_rowid({msgs[i].message_id : i \in DOMAIN msgs}),
            session_id |-> session_id, role |-> role, content |-> content,
            tool_calls |-> optional_json(tool_calls),
            tool_results |-> NULL, message_metadata |-> NULL] @@
           schema_message_defaults(now))

\* faulty variant: every row is numbered 1
insert_message_numbered_one(msgs, session_id, role, content, tool_calls, now) ==
    Append(msgs,
           [message_id |-> 1,
            session_id |-> session_id, role |-> role, content |-> content,
            tool_calls |-> optional_json(tool_calls),
            tool_results |-> NULL, message_metadata |-> NULL] @@
           schema_message_defaults(now))

\* faulty variant: a field that is not given is stored as an empty list
insert_message_fields_defaulting(msgs, session_id, role, content, tool_calls, tool_results, metadata, now) ==
    Append(msgs,
           [message_id |-> next_rowid({msgs[i].message_id : i \in DOMAIN msgs}),
            session_id |-> session_id, role |-> role, content |-> content,
            tool_calls |->
                json_dumps(to_json(IF IsNone(tool_calls) THEN py_list(<<>>)
                                   ELSE TheValue(tool_calls))),
            tool_results |->
                json_dumps(to_json(IF IsNone(tool_results) THEN py_list(<<>>)
                                   ELSE TheValue(tool_results))),
            message_metadata |->
                json_dumps(to_json(IF IsNone(metadata) THEN py_list(<<>>)
                                   ELSE TheValue(metadata)))] @@
           schema_message_defaults(now))

\* INSERT INTO messages (session_id, role, content, tool_calls, tool_results,
\* message_metadata) VALUES (?, ?, ?, ?, ?, ?)
insert_message_fields(msgs, session_id, role, content, tool_calls, tool_results, metadata, now) ==
    Append(msgs,
           [message_id |-> next_rowid({msgs[i].message_id : i \in DOMAIN msgs}),
            session_id |-> session_id, role |-> role, content |-> content,
            tool_calls |-> optional_json(tool_calls),
            tool_results |-> optional_json(tool_results),
            message_metadata |-> optional_json(metadata)] @@
           schema_message_defaults(now))

\* the INSERT of a message with no tool_results and no metadata
insert_message(msgs, session_id, role, content, tool_calls, now) ==
    insert_message_fields(msgs, session_id, role, content, tool_calls, None, None, now)

\* faulty variant: the UPDATE has no WHERE clause
touch_last_active_of_all(tbl, session_id, now) ==
    [id \in DOMAIN tbl |-> [tbl[id] EXCEPT !.last_active = now]]

\* UPDATE sessions SET last_active = CURRENT_TIMESTAMP WHERE session_id = ?
touch_last_active(tbl, session_id, now) ==
    IF session_id \in DOMAIN tbl
    THEN [tbl EXCEPT ![session_id].last_active = now]
    ELSE tbl

-----------------------------------------------------------------------------
\* _get_connection: the scoped connection

NoTxn == [pc |-> "idle"]

\* a caller that has not made its call
NotCalling == [pc |-> "idle"]

\* faulty variant: the except-branch does not roll back
scope_exit_without_rollback(committed, working, raised) == working

\* what the database holds once the scope is left: the work's writes after
\* conn.commit(), the previous contents after conn.rollback()
scope_exit(committed, working, raised) == IF raised THEN committed ELSE working

-----------------------------------------------------------------------------
\* AgentPersistence: the merge each lab-context operation computes

\* context.get(field) if context else None
context_get(context, field) ==
    IF IsNone(context) THEN None ELSE TheValue(context)[field]

\* x = ...; if x is None: x = default
or_default(o, default) == IF IsNone(o) THEN default ELSE TheValue(o)

\* faulty variant: an item equal to a stored one is not appended again
appended_unless_present(context, field, item) ==
    LET items == or_default(context_get(context, field), <<>>)
    IN IF \E i \in DOMAIN items : items[i] = item THEN items ELSE Append(items, item)

\* add_finding / add_vulnerability / add_credential: list.append(item)
appended(context, field, item) ==
    Append(or_default(context_get(context, field), <<>>), item)

finding(finding_type, description, severity) ==
    [type |-> finding_type, description |-> description, severity |-> severity,
     timestamp |-> None]

vulnerability(name, description, severity) ==
    [name |-> name, description |-> description, severity |-> severity]

credential(username, password, service) ==
    [username |-> username, password |-> password, service |-> service]

\* faulty variant: the new ports are appended to the stored list, unsorted
merged_ports_appended(context, ports) ==
    or_default(context_get(context, "open_ports"), <<>>) \o ports

\* faulty variant: the stored ports are not read back, the new list replaces them
merged_ports_overwriting(context, ports) == sorted(set(ports))

\* add_ports: sorted(list(set(existing) | set(ports)))
merged_ports(context, ports) ==
    LET stored == context_get(context, "open_ports")
        existing_ports == IF ~IsNone(stored) /\ TheValue(stored) # <<>>
                          THEN set(TheValue(stored)) ELSE {}
    IN sorted(existing_ports \cup set(ports))

\* faulty variant: the scan for an entry with the same port is skipped
merged_services_appending(context, port, service, version) ==
    Append(or_default(context_get(context, "services"), <<>>),
           [port |-> port, service |-> service, version |-> version])

\* add_service: replace the first entry with the same port, else append
merged_services(context, port, service, version) ==
    LET services == or_default(context_get(context, "services"), <<>>)
        service_info == [port |-> port, service |-> service, version |-> version]
        hits == {i \in DOMAIN services : services[i].port = port}
    IN IF hits = {} THEN Append(services, service_info)
       ELSE [services EXCEPT ![Min(hits)] = service_info]

\* faulty variant: the stored mapping is not read back
merged_flags_fresh(context, flag_type, flag_value) == flag_type :> flag_value

\* set_flag: flags[flag_type] = flag_value
merged_flags(context, flag_type, flag_value) ==
    LET flags == or_default(context_get(context, "flags"), EmptyTable)
    IN (flag_type :> flag_value) @@ flags

\* faulty variant: the concatenation is stored without .strip()
merged_notes_untrimmed(context, notes) ==
    or_default(context_get(context, "notes"), <<>>) \o <<"\n", "\n">> \o notes

\* add_notes: f"{existing_notes}\n\n{notes}".strip()
merged_notes(context, notes) ==
    LET existing_notes == or_default(context_get(context, "notes"), <<>>)
    IN strip(existing_notes \o <<"\n", "\n">> \o notes)

-----------------------------------------------------------------------------
\* State

Init ==
    /\ sessions = EmptyTable
    /\ messages = <<>>
    /\ lab_context = <<>>
    /\ current_session_id = None
    /\ agent_current_session_id = None
    /\ clock = 0
    /\ txn = NoTxn
    /\ calls = [c \in Callers |-> NotCalling]
    /\ ops = 0
    /\ last_call = [op |-> "init", arg |-> None, result |-> "ok"]

Call(op, arg, result) == [op |-> op, arg |-> arg, result |-> result]

\* uuid.uuid4(): an identifier no row of the database carries
Fresh(id) ==
    /\ id \notin DOMAIN sessions
    /\ \A i \in DOMAIN lab_context : lab_context[i].session_id # id
    /\ \A i \in DOMAIN messages : messages[i].session_id # id

\* the clock reaches the next second
Tick ==
    /\ clock < MaxClock
    /\ clock' = clock + 1
    /\ UNCHANGED <<sessions, messages, lab_context, current_session_id, txn, last_call>>

-----------------------------------------------------------------------------
\* Session lifecycle (each call runs its connection scopes to completion)

start_session(id) ==
    /\ Fresh(id)
    /\ sessions' = scope_exit(sessions, insert_session(sessions, id, default_user, clock), FALSE)
    /\ lab_context' = scope_exit(lab_context,
                                 insert_initial_context(lab_context, id, clock), FALSE)
    /\ current_session_id' = Some(id)
    /\ last_call' = Call("start_session", id, "ok")
    /\ UNCHANGED <<messages, clock, txn>>

\* faulty variant: the message does not say which session is missing
session_not_found_unnamed(session_id) == <<"Session not found">>

\* f"Session {session_id} not found"
session_not_found(session_id) == <<"Session ", session_id, " not found">>

resume_session(id) ==
    /\ IF ~IsNone(get_session(sessions, id))
       THEN /\ current_session_id' = Some(id)
            /\ sessions' = update_session_status(sessions, id, "active", clock)
            /\ last_call' = Call("resume_session", id, "ok")
       ELSE /\ UNCHANGED <<current_session_id, sessions>>
            /\ last_call' = [op |-> "resume_session", arg |-> id,
                             result |-> "ValueError",
                             message |-> session_not_found(id)]
    /\ UNCHANGED <<messages, lab_context, clock, txn>>

\* faulty variant: the session ended stays the current session
end_session_keeping_pointer(mark_as_completed) ==
    /\ IF ~IsNone(current_session_id)
       THEN sessions' = update_session_status(
                            sessions, TheValue(current_session_id),
                            IF mark_as_completed THEN "completed" ELSE "paused", clock)
       ELSE UNCHANGED sessions
    /\ last_call' = Call("end_session", mark_as_completed, "ok")
    /\ UNCHANGED <<messages, lab_context, current_session_id, clock, txn>>

\* AgentPersistence.end_session(mark_as_completed)
end_session(mark_as_completed) ==
    /\ IF ~IsNone(current_session_id)
       THEN /\ sessions' = update_session_status(
                               sessions, TheValue(current_session_id),
                               IF mark_as_completed THEN "completed" ELSE "paused", clock)
            /\ current_session_id' = None
       ELSE UNCHANGED <<current_session_id, sessions>>
    /\ last_call' = Call("end_session", mark_as_completed, "ok")
    /\ UNCHANGED <<messages, lab_context, clock, txn>>

set_session_status(id, status) ==
    /\ sessions' = update_session_status(sessions, id, status, clock)
    /\ last_call' = Call("update_session_status", <<id, status>>, "ok")
    /\ UNCHANGED <<messages, lab_context, current_session_id, clock, txn>>

archive(id) ==
    /\ sessions' = archive_session(sessions, id, clock)
    /\ last_call' = Call("archive_session", id, "ok")
    /\ UNCHANGED <<messages, lab_context, current_session_id, clock, txn>>

delete_session(id) ==
    /\ sessions' = delete_session_row(sessions, id)
    /\ messages' = cascade_delete(messages, id)
    /\ lab_context' = cascade_delete(lab_context, id)
    /\ last_call' = Call("delete_session", id, "ok")
    /\ UNCHANGED <<current_session_id, clock, txn>>

\* SessionManager.add_message
add_message(session_id, role, content, tool_calls) ==
    /\ messages' = insert_message(messages, session_id, role, content, tool_calls, clock)
    /\ sessions' = touch_last_active(sessions, session_id, clock)

\* faulty variant: the check for a current session is missing, the message is
\* inserted with a null session
add_role_message_unguarded(role, content, tool_calls) ==
    /\ IF IsNone(current_session_id)
       THEN /\ add_message("null", role, content, tool_calls)
            /\ last_call' = Call("add_message", <<role, content, tool_calls>>, "ok")
       ELSE /\ add_message(TheValue(current_session_id), role, content, tool_calls)
            /\ last_call' = Call("add_message", <<role, content, tool_calls>>, "ok")
    /\ UNCHANGED <<lab_context, current_session_id, clock, txn>>

\* add_user_message / add_assistant_message
add_role_message(role, content, tool_calls) ==
    /\ IF IsNone(current_session_id)
       THEN /\ UNCHANGED <<messages, sessions>>
            /\ last_call' = Call("add_message", <<role, content, tool_calls>>, "ValueError")
       ELSE /\ add_message(TheValue(current_session_id), role, content, tool_calls)
            /\ last_call' = Call("add_message", <<role, content, tool_calls>>, "ok")
    /\ UNCHANGED <<lab_context, current_session_id, clock, txn>>

-----------------------------------------------------------------------------
\* Lab-context operations of the wrapper: read the context, merge, write back

\* self.manager.get_lab_context(self.current_session_id)
CurrentContext == get_lab_context(lab_context, TheValue(current_session_id))

\* faulty variant: without a current session the phase of session "s1" is written
merge_into_context_unguarded(op, arg, field, value) ==
    /\ IF IsNone(current_session_id)
       THEN lab_context' = update_lab_context(
                               lab_context, "s1",
                               [NoArgs EXCEPT !["phase"] = Some("exploitation")], clock)
       ELSE lab_context' = update_lab_context(
                               lab_context, TheValue(current_session_id),
                               [NoArgs EXCEPT ![field] = Some(value)], clock)
    /\ last_call' = Call(op, arg, "ok")
    /\ UNCHANGED <<sessions, messages, current_session_id, clock, txn>>

\* if not self.current_session_id: return
\* self.manager.update_lab_context(session_id=self.current_session_id, <field>=value)
merge_into_context(op, arg, field, value) ==
    /\ IF IsNone(current_session_id)
       THEN /\ UNCHANGED lab_context
            /\ last_call' = Call(op, arg, "no_session")
       ELSE /\ lab_context' = update_lab_context(
                                  lab_context, TheValue(current_session_id),
                                  [NoArgs EXCEPT ![field] = Some(value)], clock)
            /\ last_call' = Call(op, arg, "ok")
    /\ UNCHANGED <<sessions, messages, current_session_id, clock, txn>>

update_phase(phase) ==
    merge_into_context("update_phase", phase, "phase", phase)

add_finding(finding_type, description, severity) ==
    merge_into_context("add_finding", finding(finding_type, description, severity),
                       "findings",
                       appended(CurrentContext, "findings",
                                finding(finding_type, description, severity)))

add_ports(ports) ==
    merge_into_context("add_ports", ports, "open_ports",
                       merged_ports(CurrentContext, ports))

add_service(port, service, version) ==
    merge_into_context("add_service", <<port, service, version>>, "services",
                       merged_services(CurrentContext, port, service, version))

add_vulnerability(name, description, severity) ==
    merge_into_context("add_vulnerability", vulnerability(name, description, severity),
                       "vulnerabilities",
                       appended(CurrentContext, "vulnerabilities",
                                vulnerability(name, description, severity)))

add_credential(username, password, service) ==
    merge_into_context("add_credential", credential(username, password, service),
                       "credentials",
                       appended(CurrentContext, "credentials",
                                credential(username, password, service)))

set_flag(flag_type, flag_value) ==
    merge_into_context("set_flag", <<flag_type, flag_value>>, "flags",
                       merged_flags(CurrentContext, flag_type, flag_value))

add_notes(notes) ==
    merge_into_context("add_notes", notes, "notes", merged_notes(CurrentContext, notes))

-----------------------------------------------------------------------------
\* Inputs

Roles == {"user", "assistant"}
Contents == {"hola"}
ToolCalls == {None, Some(py_list(<<py_dict(py_str("name") :> py_str("nmap"))>>))}
Ports == {22, 80, 443}
PortLists == {<<>>, <<80>>, <<80, 22>>, <<22, 443>>, <<443, 22, 80>>, <<22, 22>>}
ServicePorts == {21, 80}
ServiceNames == {"http"}
Versions == {Some("1.0"), Some("2.0")}
FlagTypes == {"user_flag", "root_flag"}
FlagValues == {"A", "B"}
VulnNames == {"vsftpd", "samba"}
NoteTexts == {<<>>, <<"a">>, <<" ">>, <<"a", " ">>, <<"\n", "b">>}

\* a call that counts against the budget of calls
Counted(A) ==
    ops < MaxOps /\ ops' = ops + 1 /\ UNCHANGED <<calls, agent_current_session_id>> /\ A
\* a call of a specification bounded by its inputs alone
Free(A) == UNCHANGED <<ops, calls, agent_current_session_id>> /\ A

-----------------------------------------------------------------------------
\* Spec: the whole single-writer machine, a bounded number of calls

Next ==
    \/ Counted(Tick)
    \/ \E id \in SessionIds : Counted(start_session(id))
    \/ \E id \in SessionIds : Counted(resume_session(id))
    \/ \E b \in BOOLEAN : Counted(end_session(b))
    \/ \E id \in SessionIds, st \in Statuses : Counted(set_session_status(id, st))
    \/ \E id \in SessionIds : Counted(archive(id))
    \/ \E id \in SessionIds : Counted(delete_session(id))
    \/ \E c \in Contents : Counted(add_role_message("user", c, None))
    \/ \E c \in Contents, t \in ToolCalls : Counted(add_role_message("assistant", c, t))
    \/ Counted(update_phase("enumeration"))
    \/ Counted(add_finding("service", "vsftpd 2.3.4", Some("high")))
    \/ Counted(add_ports(<<80, 22>>))
    \/ Counted(add_service(80, "http", Some("1.0")))
    \/ Counted(add_vulnerability("vsftpd", "backdoor", "critical"))
    \/ Counted(add_credential("root", "toor", Some("ssh")))
    \/ Counted(set_flag("user_flag", "A"))
    \/ Counted(add_notes(<<"a">>))

Spec == Init /\ [][Next]_vars

-----------------------------------------------------------------------------
\* create_session statement by statement, inside its connection scope.  The
\* variables sessions and lab_context are the committed database, which is what
\* any other connection reads; txn holds the scope's uncommitted view.

\* cursor.execute(INSERT INTO sessions ...)
create_session_insert_session(id) ==
    /\ txn.pc = "idle"
    /\ Fresh(id)
    /\ txn' = [pc |-> "session_inserted", session_id |-> id,
               sessions |-> insert_session(sessions, id, default_user, clock),
               lab_context |-> lab_context]
    /\ last_call' = Call("start_session", id, "running")
    /\ UNCHANGED <<sessions, messages, lab_context, current_session_id, clock>>

\* cursor.execute(INSERT INTO lab_context ...)
create_session_insert_context ==
    /\ txn.pc = "session_inserted"
    /\ txn' = [txn EXCEPT !.pc = "context_inserted",
                          !.lab_context = insert_initial_context(
                                              txn.lab_context, txn.session_id, clock)]
    /\ UNCHANGED <<sessions, messages, lab_context, current_session_id, clock, last_call>>

\* the second INSERT, or conn.commit(), raises: except-branch, rollback, re-raise
create_session_raise ==
    /\ txn.pc \in {"session_inserted", "context_inserted"}
    /\ sessions' = scope_exit(sessions, txn.sessions, TRUE)
    /\ lab_context' = scope_exit(lab_context, txn.lab_context, TRUE)
    /\ txn' = NoTxn
    /\ last_call' = Call("start_session", txn.session_id, "raised")
    /\ UNCHANGED <<messages, current_session_id, clock>>

\* conn.commit(); return session_id; start_session stores it as the current session
create_session_return ==
    /\ txn.pc = "context_inserted"
    /\ sessions' = scope_exit(sessions, txn.sessions, FALSE)
    /\ lab_context' = scope_exit(lab_context, txn.lab_context, FALSE)
    /\ txn' = NoTxn
    /\ current_session_id' = Some(txn.session_id)
    /\ last_call' = Call("start_session", txn.session_id, "ok")
    /\ UNCHANGED <<messages, clock>>

\* a call made while no scope is open
Idle(A) == txn.pc = "idle" /\ UNCHANGED <<ops, calls, agent_current_session_id>> /\ A

NextTxn ==
    \/ Free(Tick)
    \/ \E id \in SessionIds : Free(create_session_insert_session(id))
    \/ Free(create_session_insert_context)
    \/ Free(create_session_raise)
    \/ Free(create_session_return)
    \/ \E id \in SessionIds : Idle(resume_session(id))
    \/ \E b \in BOOLEAN : Idle(end_session(b))
    \/ \E id \in SessionIds : Idle(delete_session(id))
    \/ Idle(update_phase("enumeration"))
    \/ Idle(add_ports(<<80, 22>>))

SpecTxn == Init /\ [][NextTxn]_vars

-----------------------------------------------------------------------------
\* Properties

HasSessionRow(id) == id \in DOMAIN sessions
ContextRowsOf(id) == {i \in DOMAIN lab_context : lab_context[i].session_id = id}
StoredContext(id) == get_lab_context(lab_context, id)

\* C1: right after a session is created, get_session returns a record with
\* status 'active' and get_lab_context returns a context with phase
\* 'reconnaissance' and no ports, services, vulnerabilities, credentials, flags
\* or notes.
C1_NewSessionActiveAndBlank ==
    (last_call.op = "start_session" /\ last_call.result = "ok") =>
        LET session == get_session(sessions, last_call.arg)
            context == StoredContext(last_call.arg)
        IN /\ ~IsNone(session)
           /\ TheValue(session).status = "active"
           /\ ~IsNone(context)
           /\ TheValue(context).phase = Some("reconnaissance")
           /\ \A f \in ContextFields \ {"phase"} : IsNone(TheValue(context)[f])

\* C1 witness: a second session has just been created while an earlier one
\* already holds ports
C1_Witness ==
    /\ last_call.op = "start_session"
    /\ last_call.result = "ok"
    /\ \E i \in DOMAIN lab_context :
          /\ lab_context[i].session_id # last_call.arg
          /\ ~IsNull(lab_context[i].open_ports)

\* C2: in every reachable state a session row exists if and only if its
\* lab-context row exists, and a failed create_session leaves neither row.
C2_SessionRowIffContextRow ==
    /\ \A id \in SessionIds : HasSessionRow(id) <=> ContextRowsOf(id) # {}
    /\ (last_call.op = "start_session" /\ last_call.result = "raised") =>
          (~HasSessionRow(last_call.arg) /\ ContextRowsOf(last_call.arg) = {})

\* create_session alone keeps the two rows together: every step of it, failed
\* or not, adds both rows of the new session or neither
CreateSessionAddsBothOrNeither ==
    [][\A id \in SessionIds :
          (last_call'.op = "start_session" /\ last_call'.arg = id) =>
              /\ (HasSessionRow(id)' /\ ~HasSessionRow(id)) <=>
                     (ContextRowsOf(id)' # {} /\ ContextRowsOf(id) = {})
              /\ last_call'.result = "raised" =>
                     (sessions' = sessions /\ lab_context' = lab_context)]_vars

\* C3: every existing session has exactly one lab-context row, a merge never
\* inserts a row, and update_lab_context changes exactly the row that
\* get_lab_context returns.
C3_OneContextRowPerSession ==
    /\ \A id \in DOMAIN sessions : Cardinality(ContextRowsOf(id)) = 1
    /\ \A id \in SessionIds : Cardinality(ContextRowsOf(id)) <= 1
    /\ \A id \in SessionIds :
          LET context == StoredContext(id)
              after == update_lab_context(
                           lab_context, id,
                           [NoArgs EXCEPT !.phase = Some("exploitation")], clock)
          IN ~IsNone(context) =>
                /\ Len(after) = Len(lab_context)
                /\ get_lab_context(after, id) =
                      Some([TheValue(context) EXCEPT !.phase = Some("exploitation"),
                                                     !.updated_at = clock])
                /\ \A j \in DOMAIN lab_context :
                      lab_context[j].context_id # TheValue(context).context_id =>
                          after[j] = lab_context[j]

\* C3 witness: a session with messages whose single context row has been
\* merged into twice
C3_Witness ==
    \E id \in DOMAIN sessions :
        /\ Cardinality(ContextRowsOf(id)) = 1
        /\ \E i \in DOMAIN messages : messages[i].session_id = id
        /\ ~IsNone(TheValue(StoredContext(id)).open_ports)
        /\ ~IsNone(TheValue(StoredContext(id)).services)

-----------------------------------------------------------------------------
\* SpecUpdate: SessionManager.update_lab_context called directly, with any
\* subset of its keyword arguments

\* the value each keyword argument carries when it is supplied
ArgValue ==
    [phase |-> "exploitation",
     findings |-> <<finding("service", "vsftpd 2.3.4", Some("high"))>>,
     open_ports |-> <<22, 80>>,
     services |-> <<[port |-> 80, service |-> "http", version |-> Some("1.0")]>>,
     vulnerabilities |-> <<vulnerability("vsftpd", "backdoor", "critical")>>,
     credentials |-> <<credential("root", "toor", Some("ssh"))>>,
     flags |-> [user_flag |-> "A"],
     notes |-> <<"a">>]

\* update_lab_context(**{f: ArgValue[f] for f in supplied})
ArgsSupplying(supplied) ==
    [f \in ContextFields |-> IF f \in supplied THEN Some(ArgValue[f]) ELSE None]

AllArgs == {ArgsSupplying(supplied) : supplied \in SUBSET ContextFields}

\* the calls the specification makes
CalledArgs ==
    {ArgsSupplying(supplied) :
        supplied \in {{}, {"phase"}, {"open_ports", "flags"}, ContextFields}}

call_update_lab_context(id, args) ==
    /\ lab_context' = update_lab_context(lab_context, id, args, clock)
    /\ last_call' = Call("update_lab_context", <<id, args>>, "ok")
    /\ UNCHANGED <<sessions, messages, current_session_id, clock, txn>>

NextUpdate ==
    \/ Free(Tick)
    \/ \E id \in SessionIds : Free(start_session(id))
    \/ \E id \in SessionIds, args \in CalledArgs : Free(call_update_lab_context(id, args))

SpecUpdate == Init /\ [][NextUpdate]_vars

\* C4: update_lab_context leaves every field that is not supplied as stored;
\* only the supplied fields and the update timestamp of the session's current
\* row change.  Stated of the call just made and of every call that can follow.
C4_UnsuppliedFieldsKept ==
    \A id \in SessionIds, args \in AllArgs :
        LET after == update_lab_context(lab_context, id, args, clock)
            i == current_context_index(lab_context, id)
        IN IF i = 0 THEN after = lab_context
           ELSE /\ DOMAIN after = DOMAIN lab_context
                /\ \A j \in DOMAIN lab_context \ {i} : after[j] = lab_context[j]
                /\ \A col \in DOMAIN lab_context[i] :
                      after[i][col] # lab_context[i][col] =>
                          \/ col \in ContextFields /\ ~IsNone(args[col])
                          \/ col = "updated_at" /\ \E f \in ContextFields : ~IsNone(args[f])

\* C4 witness: a call supplying only the phase was made on a row that held
\* ports and flags, a second later than the row's previous update
C4_Witness ==
    /\ last_call.op = "update_lab_context"
    /\ last_call.arg[2] = ArgsSupplying({"phase"})
    /\ LET context == StoredContext(last_call.arg[1])
       IN /\ ~IsNone(context)
          /\ TheValue(context).phase = Some("exploitation")
          /\ TheValue(context).open_ports = Some(<<22, 80>>)
          /\ TheValue(context).flags = Some([user_flag |-> "A"])
          /\ IsNone(TheValue(context).notes)
          /\ TheValue(context).updated_at = 1

-----------------------------------------------------------------------------
\* SpecAddPorts: sessions are started and every port list of PortLists is added

NextAddPorts ==
    \/ \E id \in SessionIds : Free(start_session(id))
    \/ \E ports \in PortLists : Free(add_ports(ports))

SpecAddPorts == Init /\ [][NextAddPorts]_vars

\* SpecPorts: add_ports among the calls that start, leave, resume and delete sessions

NextPorts ==
    \/ \E id \in SessionIds : Free(start_session(id))
    \/ \E id \in SessionIds : Free(resume_session(id))
    \/ \E b \in BOOLEAN : Free(end_session(b))
    \/ \E id \in SessionIds : Free(delete_session(id))
    \/ \E ports \in PortLists : Free(add_ports(ports))
    \/ Free(update_phase("enumeration"))

SpecPorts == Init /\ [][NextPorts]_vars

\* the lab_context table after add_ports(ports) with session id current
AfterAddPorts(ctx, id, ports) ==
    update_lab_context(
        ctx, id,
        [NoArgs EXCEPT !.open_ports = Some(merged_ports(get_lab_context(ctx, id), ports))],
        clock)

\* the ports a context row stores (none when the column is NULL)
PortsOfRow(row) == IF IsNull(row.open_ports) THEN {} ELSE set(json_loads(row.open_ports))

StrictlyAscending(seq) == \A i \in 1..(Len(seq) - 1) : seq[i] < seq[i + 1]

\* seq is the ascending, duplicate-free listing of the set S
IsSortedListingOf(seq, S) == set(seq) = S /\ StrictlyAscending(seq)

\* C5: for any two port lists A and B, adding A then B, B then A, both in one
\* call, or either of them twice, stores the same list: the ascending union of
\* A, B and the ports stored before.
C5_AddPortsIdempotentCommutative ==
    \A id \in SessionIds :
        LET stored(ctx) == TheValue(get_lab_context(ctx, id)).open_ports
            Add(ctx, ports) == AfterAddPorts(ctx, id, ports)
            already == PortsOfRow(lab_context[current_context_index(lab_context, id)])
        IN ~IsNone(StoredContext(id)) =>
              \A A \in PortLists, B \in PortLists :
                  \A a \in {Add(lab_context, A)}, b \in {Add(lab_context, B)} :
                      \A ab \in {Add(a, B)}, aa \in {Add(a, A)} :
                          /\ ~IsNone(stored(ab))
                          /\ IsSortedListingOf(TheValue(stored(ab)),
                                               already \cup set(A) \cup set(B))
                          /\ stored(Add(b, A)) = stored(ab)
                          /\ stored(Add(lab_context, A \o B)) = stored(ab)
                          /\ stored(Add(aa, B)) = stored(ab)
                          /\ stored(Add(ab, B)) = stored(ab)

\* C5 witness: [80, 22] then [22, 443] were added and [22, 80, 443] is stored
C5_Witness ==
    /\ last_call = Call("add_ports", <<22, 443>>, "ok")
    /\ TheValue(CurrentContext).open_ports = Some(<<22, 80, 443>>)

-----------------------------------------------------------------------------
\* SpecServices: add_service among the calls that start, leave and resume sessions

NextServices ==
    \/ \E id \in SessionIds : Free(start_session(id))
    \/ \E id \in SessionIds : Free(resume_session(id))
    \/ \E b \in BOOLEAN : Free(end_session(b))
    \/ \E port \in ServicePorts, service \in ServiceNames, version \in Versions :
           Free(add_service(port, service, version))

SpecServices == Init /\ [][NextServices]_vars

\* the value get_lab_context returns for a list column of the current session,
\* the empty list when the column is unset
CurrentList(field) == or_default(context_get(CurrentContext, field), <<>>)

\* C7: every stored services list has at most one entry per port; add_service
\* for a port already listed replaces that entry where it stands and changes
\* no other entry nor the length; add_service for a new port appends at the end.
C7_AddServiceUpsertByPort ==
    /\ [](\A r \in DOMAIN lab_context :
             ~IsNull(lab_context[r].services) =>
                 LET services == json_loads(lab_context[r].services)
                 IN \A i \in DOMAIN services, j \in DOMAIN services :
                        services[i].port = services[j].port => i = j)
    /\ [][\A port \in ServicePorts, service \in ServiceNames, version \in Versions :
             (add_service(port, service, version) /\ ~IsNone(current_session_id)) =>
                 LET before == CurrentList("services")
                     after == CurrentList("services")'
                     entry == [port |-> port, service |-> service, version |-> version]
                     at == {i \in DOMAIN before : before[i].port = port}
                 IN IF at = {}
                    THEN after = Append(before, entry)
                    ELSE /\ Len(after) = Len(before)
                         /\ \A i \in DOMAIN before :
                                after[i] = IF i \in at THEN entry ELSE before[i]]_vars

\* C7 witness: port 21 then port 80 were listed, and a second call for port 21
\* has replaced the first entry, port 80 staying second
C7_Witness ==
    /\ last_call = Call("add_service", <<21, "http", Some("2.0")>>, "ok")
    /\ CurrentList("services") =
           << [port |-> 21, service |-> "http", version |-> Some("2.0")],
              [port |-> 80, service |-> "http", version |-> Some("1.0")] >>

-----------------------------------------------------------------------------
\* SpecFlags: set_flag among the calls that start, leave and resume sessions

NextFlags ==
    \/ \E id \in SessionIds : Free(start_session(id))
    \/ \E id \in SessionIds : Free(resume_session(id))
    \/ \E b \in BOOLEAN : Free(end_session(b))
    \/ \E flag_type \in FlagTypes, flag_value \in FlagValues :
           Free(set_flag(flag_type, flag_value))

SpecFlags == Init /\ [][NextFlags]_vars

\* the flags mapping get_lab_context returns for the current session, the empty
\* mapping when the column is unset
CurrentFlags == or_default(context_get(CurrentContext, "flags"), EmptyTable)

\* the flags column of row r, the empty mapping when the column is unset
FlagsOfRow(row) == IF IsNull(row.flags) THEN EmptyTable ELSE json_loads(row.flags)

\* C8: set_flag(type, value) leaves value readable under type and every other
\* type with the value it had; no other step changes a stored flag, so each type
\* ever set reads the value of the latest set_flag for it.
C8_SetFlagLastWriteWins ==
    /\ [][\A flag_type \in FlagTypes, flag_value \in FlagValues :
             (set_flag(flag_type, flag_value) /\ ~IsNone(current_session_id)) =>
                 /\ DOMAIN CurrentFlags' = DOMAIN CurrentFlags \cup {flag_type}
                 /\ CurrentFlags'[flag_type] = flag_value
                 /\ \A other \in DOMAIN CurrentFlags \ {flag_type} :
                        CurrentFlags'[other] = CurrentFlags[other]]_vars
    /\ [][(\A flag_type \in FlagTypes, flag_value \in FlagValues :
               ~set_flag(flag_type, flag_value)) =>
             \A r \in DOMAIN lab_context :
                 r \in DOMAIN lab_context' /\ FlagsOfRow(lab_context'[r]) = FlagsOfRow(lab_context[r])]_vars

\* C8 witness: user_flag was set to A, then to B, then root_flag to A, and both
\* are readable, user_flag with B
C8_Witness ==
    /\ last_call = Call("set_flag", <<"root_flag", "A">>, "ok")
    /\ CurrentFlags = ("user_flag" :> "B") @@ ("root_flag" :> "A")

-----------------------------------------------------------------------------
\* SpecAppend: findings, vulnerabilities and credentials are added to the
\* sessions started, a bounded number of calls

NextAppend ==
    \/ \E id \in SessionIds : Counted(start_session(id))
    \/ Counted(add_finding("service", "vsftpd 2.3.4", Some("high")))
    \/ \E name \in VulnNames : Counted(add_vulnerability(name, "backdoor", "critical"))
    \/ Counted(add_credential("root", "toor", Some("ssh")))

SpecAppend == Init /\ [][NextAppend]_vars

\* after is before with item added as its last element
IsAppendOf(after, before, item) ==
    /\ Len(after) = Len(before) + 1
    /\ after[Len(after)] = item
    /\ \A i \in DOMAIN before : after[i] = before[i]

\* C9: add_finding, add_vulnerability and add_credential each lengthen their
\* list by one, put the new item last and keep the earlier items in place, also
\* when an equal item is already listed.
C9_AppendsWithoutDeduplication ==
    [][/\ (add_finding("service", "vsftpd 2.3.4", Some("high")) /\ ~IsNone(current_session_id)) =>
              IsAppendOf(CurrentList("findings")', CurrentList("findings"),
                         finding("service", "vsftpd 2.3.4", Some("high")))
       /\ \A name \in VulnNames :
              (add_vulnerability(name, "backdoor", "critical") /\ ~IsNone(current_session_id)) =>
                  IsAppendOf(CurrentList("vulnerabilities")', CurrentList("vulnerabilities"),
                             vulnerability(name, "backdoor", "critical"))
       /\ (add_credential("root", "toor", Some("ssh")) /\ ~IsNone(current_session_id)) =>
              IsAppendOf(CurrentList("credentials")', CurrentList("credentials"),
                         credential("root", "toor", Some("ssh")))]_vars

\* C9 witness: the vulnerability named vsftpd was added twice and is listed twice
C9_Witness ==
    /\ last_call = Call("add_vulnerability", vulnerability("vsftpd", "backdoor", "critical"), "ok")
    /\ CurrentList("vulnerabilities") =
           << vulnerability("vsftpd", "backdoor", "critical"),
              vulnerability("vsftpd", "backdoor", "critical") >>

-----------------------------------------------------------------------------
\* SpecNotes: notes are added to the sessions started, up to MaxNoteLen
\* characters before trimming

\* the notes get_lab_context returns for the current session, the empty string
\* when the column is unset
CurrentNotes == or_default(context_get(CurrentContext, "notes"), <<>>)

separator == <<"\n", "\n">>

NextNotes ==
    \/ \E id \in SessionIds : Free(start_session(id))
    \/ \E notes \in NoteTexts :
           /\ ~IsNone(current_session_id) =>
                  Len(CurrentNotes) + Len(separator) + Len(notes) <= MaxNoteLen
           /\ Free(add_notes(notes))

SpecNotes == Init /\ [][NextNotes]_vars

\* C10 as stated: add_notes stores the new text when there are no notes, else
\* the previous notes, the blank-line separator and the new text.
C10_NotesConcatenatedVerbatim ==
    [][\A notes \in NoteTexts :
          (add_notes(notes) /\ ~IsNone(current_session_id)) =>
              CurrentNotes' = IF CurrentNotes = <<>> THEN notes
                              ELSE CurrentNotes \o separator \o notes]_vars

\* C10: add_notes stores the trimmed concatenation: the trimmed new text when
\* there are no notes; else the previous notes, followed by the separator and
\* the right-trimmed new text unless the new text is blank; stored notes never
\* begin or end with whitespace, and the previous notes remain a prefix.
C10_NotesAccumulateTrimmed ==
    /\ [](\A r \in DOMAIN lab_context :
             ~IsNull(lab_context[r].notes) =>
                 strip(lab_context[r].notes.text) = lab_context[r].notes.text)
    /\ [][\A notes \in NoteTexts :
             (add_notes(notes) /\ ~IsNone(current_session_id)) =>
                 /\ CurrentNotes = <<>> => CurrentNotes' = strip(notes)
                 /\ CurrentNotes # <<>> =>
                        CurrentNotes' = IF rstrip(notes) = <<>> THEN CurrentNotes
                                        ELSE CurrentNotes \o separator \o rstrip(notes)
                 /\ IsPrefix(CurrentNotes, CurrentNotes')]_vars

\* C10 witness: "a " was added, stored as "a", and "\nb" after it
C10_Witness ==
    /\ last_call = Call("add_notes", <<"\n", "b">>, "ok")
    /\ CurrentNotes = <<"a", "\n", "\n", "\n", "b">>

-----------------------------------------------------------------------------
\* SessionManager: reading the message log

\* ORDER BY timestamp ASC over rows listed by ascending message_id: a row moves
\* before the rows with a later timestamp, rows with equal timestamps keep
\* their message_id order
RECURSIVE order_by_timestamp(_)
order_by_timestamp(rows) ==
    IF rows = <<>> THEN <<>>
    ELSE LET earliest == Min({rows[i].timestamp : i \in DOMAIN rows})
             first == Min({i \in DOMAIN rows : rows[i].timestamp = earliest})
         IN <<rows[first]>> \o
            order_by_timestamp(SubSeq(rows, 1, first - 1) \o
                               SubSeq(rows, first + 1, Len(rows)))

\* if message.get(field): message[field] = json.loads(message[field])
load_message_field(col) == IF IsNull(col) THEN None ELSE Some(from_json(json_loads(col)))

\* message = dict(row), with the three JSON columns deserialised
load_message(row) ==
    [row EXCEPT !.tool_calls = load_message_field(@),
                !.tool_results = load_message_field(@),
                !.message_metadata = load_message_field(@)]

\* get_messages(session_id, limit): "if limit:" adds LIMIT ? only for a limit
\* that is neither None nor 0; a negative LIMIT is no limit in SQLite
get_messages(msgs, session_id, limit) ==
    LET rows == order_by_timestamp(
                    SelectSeq(msgs, LAMBDA m : m.session_id = session_id))
        kept == IF IsNone(limit) \/ TheValue(limit) = 0 \/ TheValue(limit) < 0
                THEN rows
                ELSE SubSeq(rows, 1, Min({TheValue(limit), Len(rows)}))
    IN [i \in DOMAIN kept |-> load_message(kept[i])]

\* get_conversation_history(session_id, max_messages)
get_conversation_history(msgs, session_id, max_messages) ==
    LET found == get_messages(msgs, session_id, Some(max_messages))
    IN [i \in DOMAIN found |-> [role |-> found[i].role, content |-> found[i].content]]

\* the rows of a table (a sequence of rows) that belong to session id
RowsOf(rows, id) == SelectSeq(rows, LAMBDA r : r.session_id = id)

-----------------------------------------------------------------------------
\* Deleting a session

\* C11: delete_session(id) on a session with messages and a context row leaves
\* no message and no context row of id (get_messages returns the empty list,
\* get_lab_context returns None) and leaves the rows of every other session as
\* they were.
C11_DeleteRemovesMessagesAndContext ==
    [][\A id \in SessionIds :
          (/\ delete_session(id)
           /\ HasSessionRow(id)
           /\ RowsOf(messages, id) # <<>>
           /\ RowsOf(lab_context, id) # <<>>) =>
              /\ get_messages(messages', id, None) = <<>>
              /\ IsNone(get_lab_context(lab_context', id))
              /\ \A other \in SessionIds \ {id} :
                     /\ RowsOf(messages', other) = RowsOf(messages, other)
                     /\ RowsOf(lab_context', other) = RowsOf(lab_context, other)
                     /\ get_session(sessions', other) = get_session(sessions, other)]_vars

-----------------------------------------------------------------------------
\* add_message statement by statement, by concurrent callers.  Each caller has
\* its own connection; SQLite lets one connection at a time hold uncommitted
\* writes, so txn is the one write scope open and the other callers wait for it
\* (sqlite3.connect's default busy timeout) or give up with "database is locked".

Request(session_id, role, content, tool_calls) ==
    [session_id |-> session_id, role |-> role, content |-> content,
     tool_calls |-> tool_calls]

\* cursor.execute(INSERT INTO messages ...)
add_message_insert(c, session_id, role, content, tool_calls) ==
    /\ calls[c].pc = "idle"
    /\ txn.pc = "idle"
    /\ LET inserted == insert_message(messages, session_id, role, content, tool_calls, clock)
       IN txn' = [pc |-> "message_inserted", caller |-> c,
                  messages |-> inserted, sessions |-> sessions,
                  lastrowid |-> inserted[Len(inserted)].message_id]
    /\ calls' = [calls EXCEPT ![c] = [pc |-> "in_scope"] @@
                                     Request(session_id, role, content, tool_calls)]
    /\ UNCHANGED <<sessions, messages, lab_context, current_session_id, agent_current_session_id, clock, ops, last_call>>

\* the INSERT waits for the open write scope longer than the busy timeout:
\* sqlite3.OperationalError, nothing was written
add_message_busy(c, session_id, role, content, tool_calls) ==
    /\ calls[c].pc = "idle"
    /\ txn.pc # "idle"
    /\ calls' = [calls EXCEPT ![c] = [pc |-> "raised", error |-> "OperationalError"] @@
                                     Request(session_id, role, content, tool_calls)]
    /\ UNCHANGED <<sessions, messages, lab_context, current_session_id, agent_current_session_id, clock, txn, ops,
                   last_call>>

\* cursor.execute(UPDATE sessions SET last_active = CURRENT_TIMESTAMP ...)
add_message_update_last_active(c) ==
    /\ txn.pc = "message_inserted"
    /\ txn.caller = c
    /\ txn' = [txn EXCEPT !.pc = "last_active_updated",
                          !.sessions = touch_last_active(txn.sessions,
                                                         calls[c].session_id, clock)]
    /\ UNCHANGED <<sessions, messages, lab_context, current_session_id, agent_current_session_id, clock, calls, ops,
                   last_call>>

\* the UPDATE, or conn.commit(), raises: except-branch, rollback, re-raise
add_message_raise(c) ==
    /\ txn.pc \in {"message_inserted", "last_active_updated"}
    /\ txn.caller = c
    /\ messages' = scope_exit(messages, txn.messages, TRUE)
    /\ sessions' = scope_exit(sessions, txn.sessions, TRUE)
    /\ txn' = NoTxn
    /\ calls' = [calls EXCEPT ![c] = [@ EXCEPT !.pc = "raised"] @@ [error |-> "Exception"]]
    /\ UNCHANGED <<lab_context, current_session_id, agent_current_session_id, clock, ops, last_call>>

\* return cursor.lastrowid; conn.commit()
add_message_return(c) ==
    /\ txn.pc = "last_active_updated"
    /\ txn.caller = c
    /\ messages' = scope_exit(messages, txn.messages, FALSE)
    /\ sessions' = scope_exit(sessions, txn.sessions, FALSE)
    /\ txn' = NoTxn
    /\ calls' = [calls EXCEPT ![c] = [@ EXCEPT !.pc = "returned"] @@
                                     [message_id |-> txn.lastrowid]]
    /\ UNCHANGED <<lab_context, current_session_id, agent_current_session_id, clock, ops, last_call>>

MessageTexts == {"hola", "adios"}

\* SpecMessages: two callers append one message each while sessions are
\* started and deleted and the clock advances
NextMessages ==
    \/ Free(Tick)
    \/ \E id \in SessionIds : Idle(start_session(id))
    \/ \E id \in SessionIds : Idle(delete_session(id))
    \/ \E c \in Callers, id \in SessionIds, content \in MessageTexts :
           add_message_insert(c, id, "user", content, None)
    \/ \E c \in Callers, id \in SessionIds, content \in MessageTexts :
           add_message_busy(c, id, "user", content, None)
    \/ \E c \in Callers : add_message_update_last_active(c)
    \/ \E c \in Callers : add_message_raise(c)
    \/ \E c \in Callers : add_message_return(c)

SpecMessages == Init /\ [][NextMessages]_vars

\* the messages in after that are not in before
NewMessages(before, after) ==
    {after[i] : i \in DOMAIN after} \ {before[i] : i \in DOMAIN before}

\* C12: the committed database never shows a message of an existing session
\* later than that session's last_active; last_active of a session changes only
\* in the step that commits a new message of it; and a call that fails inside
\* its scope leaves messages and sessions as they were.
C12_MessageAndLastActiveTogether ==
    /\ [](\A i \in DOMAIN messages :
             HasSessionRow(messages[i].session_id) =>
                 sessions[messages[i].session_id].last_active >= messages[i].timestamp)
    /\ [][\A id \in DOMAIN sessions \cap DOMAIN sessions' :
             sessions'[id].last_active # sessions[id].last_active =>
                 \E m \in NewMessages(messages, messages') :
                     m.session_id = id /\ m.timestamp <= sessions'[id].last_active]_vars
    /\ [][\A c \in Callers :
             (calls[c].pc = "in_scope" /\ calls'[c].pc = "raised") =>
                 messages' = messages /\ sessions' = sessions]_vars

\* C12 witness: one call failed after its INSERT and left no message; another
\* committed its message a second after the session was created, together
\* with the later last_active
C12_Witness ==
    \E c \in Callers, d \in Callers :
        /\ calls[c].pc = "raised" /\ calls[c].error = "Exception"
        /\ calls[d].pc = "returned"
        /\ Len(messages) = 1
        /\ messages[1].timestamp = 1
        /\ HasSessionRow(calls[d].session_id)
        /\ sessions[calls[d].session_id].updated_at = 0
        /\ sessions[calls[d].session_id].last_active = 1

\* C13: add_message for a session id without a session row does not return
\* normally and stores nothing, and every stored message carries the id of an
\* existing session.
C13_MessagesReferToSessions ==
    /\ [][\A c \in Callers :
             (calls[c].pc = "in_scope" /\ ~HasSessionRow(calls[c].session_id)) =>
                 /\ calls'[c].pc # "returned"
                 /\ messages' = messages]_vars
    /\ [](\A i \in DOMAIN messages : HasSessionRow(messages[i].session_id))

-----------------------------------------------------------------------------
\* The message log

\* C14: no step changes or removes a stored message, except a step that deletes
\* the message's session, and every message added is numbered above all the
\* messages stored before it.
C14_MessageLogAppendOnly ==
    [][/\ \A i \in DOMAIN messages :
              \/ /\ HasSessionRow(messages[i].session_id)
                 /\ messages[i].session_id \notin DOMAIN sessions'
              \/ \E j \in DOMAIN messages' : messages'[j] = messages[i]
       /\ \A m \in NewMessages(messages, messages') :
              \A i \in DOMAIN messages : m.message_id > messages[i].message_id]_vars

\* C14 witness: two messages, the second with a tool call, were appended and
\* numbered 1 and 2, and are stored as appended after the session was ended
C14_Witness ==
    /\ last_call.op = "end_session"
    /\ Len(messages) = 2
    /\ messages[1].message_id = 1 /\ messages[1].role = "user"
    /\ messages[2].message_id = 2 /\ messages[2].role = "assistant"
    /\ ~IsNull(messages[2].tool_calls)

\* C15: for every existing session and every N >= 0, get_conversation_history(session, N)
\* has at most N entries, and they follow one another as the messages they
\* were made from were appended.
C15_HistoryAtMostNInOrder ==
    \A id \in SessionIds, N \in 0..(Len(messages) + 1) :
        LET history == get_conversation_history(messages, id, N)
            appended_rows == RowsOf(messages, id)
        IN HasSessionRow(id) =>
              /\ Len(history) <= N
              /\ \A i \in DOMAIN history, j \in DOMAIN history :
                     i < j =>
                         \E a \in DOMAIN appended_rows, b \in DOMAIN appended_rows :
                             /\ a < b
                             /\ appended_rows[a].content = history[i].content
                             /\ appended_rows[b].content = history[j].content

-----------------------------------------------------------------------------
\* add_vulnerability by concurrent callers, each with its own AgentPersistence
\* resumed on a session: get_lab_context and update_lab_context are two
\* connection scopes, and other callers may run between them.

\* faulty variant: the item is appended to what is stored at the time of writing
written_back_merging(read_list, stored_list, item) == Append(stored_list, item)

\* vulns.append({...}); update_lab_context(vulnerabilities=vulns): the list
\* written is the list that was read, with the item appended
written_back(read_list, stored_list, item) == Append(read_list, item)

StoredVulnerabilities(id) ==
    or_default(context_get(get_lab_context(lab_context, id), "vulnerabilities"), <<>>)

\* context = self.manager.get_lab_context(...); vulns = context.get('vulnerabilities')
add_vulnerability_read(c, id, name) ==
    /\ calls[c].pc = "idle"
    /\ HasSessionRow(id)
    /\ calls' = [calls EXCEPT ![c] =
                    [pc |-> "read", session_id |-> id,
                     item |-> vulnerability(name, "backdoor", "critical"),
                     vulns |-> StoredVulnerabilities(id)]]
    /\ UNCHANGED <<sessions, messages, lab_context, current_session_id, agent_current_session_id, clock, txn, ops,
                   last_call>>

\* vulns.append(...); self.manager.update_lab_context(vulnerabilities=vulns)
add_vulnerability_write(c) ==
    /\ calls[c].pc = "read"
    /\ lab_context' =
           update_lab_context(
               lab_context, calls[c].session_id,
               [NoArgs EXCEPT !.vulnerabilities =
                   Some(written_back(calls[c].vulns,
                                     StoredVulnerabilities(calls[c].session_id),
                                     calls[c].item))],
               clock)
    /\ calls' = [calls EXCEPT ![c].pc = "returned"]
    /\ UNCHANGED <<sessions, messages, current_session_id, agent_current_session_id, clock, txn, ops, last_call>>

\* SpecRace: two callers add one vulnerability each to the sessions started
NextRace ==
    \/ \E id \in SessionIds : Idle(start_session(id))
    \/ \E c \in Callers, id \in SessionIds, name \in VulnNames :
           add_vulnerability_read(c, id, name)
    \/ \E c \in Callers : add_vulnerability_write(c)

SpecRace == Init /\ [][NextRace]_vars

\* both callers have returned from add_vulnerability on session id
BothReturnedOn(id) ==
    \A c \in Callers : calls[c].pc = "returned" /\ calls[c].session_id = id

\* C16: when two add_vulnerability calls on one session have both returned, and
\* each had read the list before the other wrote, the stored list is the list
\* they read plus one of the two items, the other is lost; when one read after
\* the other had written, both items are stored.
C16_LostUpdateWhenReadsPrecedeWrites ==
    \A id \in SessionIds :
        BothReturnedOn(id) =>
            LET stored == StoredVulnerabilities(id)
                first == CHOOSE c \in Callers :
                             \A d \in Callers : Len(calls[c].vulns) <= Len(calls[d].vulns)
            IN IF \A c \in Callers : calls[c].vulns = calls[first].vulns
               THEN /\ Len(stored) = Len(calls[first].vulns) + 1
                    /\ \E c \in Callers : stored = Append(calls[c].vulns, calls[c].item)
               ELSE /\ Len(stored) = Len(calls[first].vulns) + 2
                    /\ \A c \in Callers :
                           \E i \in DOMAIN stored : stored[i] = calls[c].item

\* C16 witness: both calls returned, for different vulnerabilities, and one
\* entry is stored
C16_Witness ==
    \E id \in SessionIds :
        /\ BothReturnedOn(id)
        /\ calls["c1"].item # calls["c2"].item
        /\ Len(StoredVulnerabilities(id)) = 1

-----------------------------------------------------------------------------
\* Concurrent appends

\* the stored message that add_message returned the id of to caller c
ReturnedMessages(c) ==
    {i \in DOMAIN messages : messages[i].message_id = calls[c].message_id}

\* C17: under every interleaving, each add_message call that has returned has
\* its message stored under the id it returned, with its own session, role and
\* content, no two calls share a message, and the session of the message, if it
\* exists, has a last_active no earlier than the message.
C17_ConcurrentAppendsAllStored ==
    \A c \in Callers :
        calls[c].pc = "returned" =>
            /\ \E i \in ReturnedMessages(c) :
                   /\ messages[i].session_id = calls[c].session_id
                   /\ messages[i].role = calls[c].role
                   /\ messages[i].content = calls[c].content
                   /\ HasSessionRow(calls[c].session_id) =>
                          sessions[calls[c].session_id].last_active >= messages[i].timestamp
            /\ \A d \in Callers \ {c} :
                   calls[d].pc = "returned" => calls[d].message_id # calls[c].message_id

\* C17 witness: both callers appended to the same session, one "hola" and the
\* other "adios", both returned and both messages are stored
C17_Witness ==
    /\ \A c \in Callers : calls[c].pc = "returned" /\ calls[c].session_id = "s1"
    /\ calls["c1"].content = "hola" /\ calls["c2"].content = "adios"
    /\ HasSessionRow("s1")
    /\ Len(RowsOf(messages, "s1")) = 2

-----------------------------------------------------------------------------
\* SessionManager: the read operations

\* how a call ends: with a value, or with an exception
Returned(v) == [ok |-> TRUE, value |-> v]
Raised(e) == [ok |-> FALSE, error |-> e]

\* Python truthiness of an Optional list, mapping or string: "if x:"
truthy(o) == ~IsNone(o) /\ TheValue(o) # <<>> /\ TheValue(o) # EmptyTable

\* faulty variant: the messages of every session are counted
message_counts_of_all(msgs, session_id) ==
    LET roles == {msgs[i].role : i \in DOMAIN msgs}
    IN [r \in roles |-> Cardinality({i \in DOMAIN msgs : msgs[i].role = r})]

\* SELECT role, COUNT(*) FROM messages WHERE session_id = ? GROUP BY role
message_counts(msgs, session_id) ==
    LET rows == RowsOf(msgs, session_id)
        roles == {rows[i].role : i \in DOMAIN rows}
    IN [r \in roles |-> Cardinality({i \in DOMAIN rows : rows[i].role = r})]

\* sum(message_counts.values())
RECURSIVE sum_values(_)
sum_values(counts) ==
    IF DOMAIN counts = {} THEN 0
    ELSE LET k == CHOOSE k \in DOMAIN counts : TRUE
         IN counts[k] + sum_values([x \in DOMAIN counts \ {k} |-> counts[x]])

\* get_session_statistics(session_id): dict(cursor.fetchone()) is dict(None),
\* a TypeError, when no sessions row has the id
get_session_statistics(sess, msgs, session_id) ==
    LET rows == RowsOf(msgs, session_id)
    IN IF session_id \notin DOMAIN sess THEN Raised("TypeError")
       ELSE Returned([message_counts |-> message_counts(msgs, session_id),
                      total_messages |-> sum_values(message_counts(msgs, session_id)),
                      tool_usage_count |->
                          Cardinality({i \in DOMAIN rows : ~IsNull(rows[i].tool_calls)}),
                      last_active |-> sess[session_id].last_active])

\* "Nueva sesión sin contexto previo."
NoPriorContext == "Nueva sesion sin contexto previo."

\* str(n) of an integer
str(n) == ToString(n)

\* sep.join(parts) for a list of strings
RECURSIVE join(_, _)
join(sep, parts) ==
    IF parts = <<>> THEN ""
    ELSE IF Len(parts) = 1 THEN parts[1]
    ELSE parts[1] \o sep \o join(sep, Tail(parts))

\* faulty variant: only the first three ports are listed
port_listing_truncated(ports) ==
    "Puertos abiertos: " \o
    join(", ", [i \in 1..Min({3, Len(ports)}) |-> str(ports[i])])

\* f"Puertos abiertos: {', '.join(map(str, ports))}"
port_listing(ports) ==
    "Puertos abiertos: " \o join(", ", [i \in DOMAIN ports |-> str(ports[i])])

\* faulty variant: every stored service is listed
service_listing_of_all(services) ==
    "Servicios: " \o
    join(", ", [i \in DOMAIN services |->
                   str(services[i].port) \o "/" \o services[i].service])

\* f"Servicios: {', '.join(services_list)}", of at most the first five services
service_listing(services) ==
    "Servicios: " \o
    join(", ", [i \in 1..Min({5, Len(services)}) |->
                   str(services[i].port) \o "/" \o services[i].service])

\* f"Vulnerabilidades encontradas: {vuln_count}"
vulnerability_count(vulnerabilities) ==
    "Vulnerabilidades encontradas: " \o str(Len(vulnerabilities))

\* get_context_for_agent(session_id): the digest, "\n".join(context_parts).  The
\* sessions of the model carry no name, environment, target or objective, so the
\* header names the session id and the three optional header lines are absent;
\* accented letters and the check mark are written in ASCII.
get_context_for_agent(sess, ctx, session_id) ==
    LET session == get_session(sess, session_id)
        context == get_lab_context(ctx, session_id)
        has(field) == truthy(TheValue(context)[field])
        value(field) == TheValue(TheValue(context)[field])
        phase == TheValue(context).phase
        flag(flag_type) == /\ flag_type \in DOMAIN value("flags")
                           /\ value("flags")[flag_type] # ""
        context_parts ==
            <<"=== SESION ACTUAL: " \o session_id \o " ===\n">> \o
            (IF IsNone(context) THEN <<>>
             ELSE <<"\nFase actual: " \o (IF IsNone(phase) THEN "None" ELSE TheValue(phase))>> \o
                  (IF has("open_ports") THEN <<port_listing(value("open_ports"))>> ELSE <<>>) \o
                  (IF has("services") THEN <<service_listing(value("services"))>> ELSE <<>>) \o
                  (IF has("vulnerabilities")
                   THEN <<vulnerability_count(value("vulnerabilities"))>> ELSE <<>>) \o
                  (IF has("flags")
                   THEN (IF flag("user_flag") THEN <<"[v] User flag capturada">> ELSE <<>>) \o
                        (IF flag("root_flag") THEN <<"[v] Root flag capturada">> ELSE <<>>)
                   ELSE <<>>))
    IN IF IsNone(session) THEN NoPriorContext ELSE join("\n", context_parts)

\* export_session_report(session_id): the four reads in turn; the exception of
\* get_session_statistics is not caught
export_session_report(sess, msgs, ctx, session_id) ==
    LET statistics == get_session_statistics(sess, msgs, session_id)
    IN IF ~statistics.ok THEN statistics
       ELSE Returned([session |-> get_session(sess, session_id),
                      messages |-> get_messages(msgs, session_id, None),
                      lab_context |-> get_lab_context(ctx, session_id),
                      statistics |-> statistics.value])

ReadOperations ==
    {"get_session", "get_lab_context", "get_messages", "get_conversation_history",
     "get_context_for_agent", "get_session_statistics", "export_session_report"}

\* what the read operation op returns, or raises, for session_id
read_result(op, session_id) ==
    CASE op = "get_session" -> Returned(get_session(sessions, session_id))
      [] op = "get_lab_context" -> Returned(get_lab_context(lab_context, session_id))
      [] op = "get_messages" -> Returned(get_messages(messages, session_id, None))
      [] op = "get_conversation_history" ->
             Returned(get_conversation_history(messages, session_id, 20))
      [] op = "get_context_for_agent" ->
             Returned(get_context_for_agent(sessions, lab_context, session_id))
      [] op = "get_session_statistics" ->
             get_session_statistics(sessions, messages, session_id)
      [] op = "export_session_report" ->
             export_session_report(sessions, messages, lab_context, session_id)

\* a read operation is called: the database stays as it is
read(op, session_id) ==
    /\ last_call' = Call(op, session_id, read_result(op, session_id))
    /\ UNCHANGED <<sessions, messages, lab_context, current_session_id, clock, txn>>

\* SpecReads: every read operation is called for every session id, started or
\* not, as sessions are started and ports and a bounded number of messages are
\* added
NextReads ==
    \/ \E id \in SessionIds : Free(start_session(id))
    \/ \E t \in ToolCalls : Counted(add_role_message("assistant", "hola", t))
    \/ Free(add_ports(<<80, 22>>))
    \/ \E op \in ReadOperations, id \in SessionIds : Free(read(op, id))

SpecReads == Init /\ [][NextReads]_vars

\* C19: a read operation called with a session id that does not exist raises
\* nothing and returns None (get_session, get_lab_context), the empty list
\* (get_messages, get_conversation_history), or the fixed text
\* (get_context_for_agent).
C19_ReadsOfMissingSessionReturnAbsent ==
    (last_call.op \in ReadOperations /\ ~HasSessionRow(last_call.arg)) =>
        /\ last_call.result.ok
        /\ last_call.op \in {"get_session", "get_lab_context"} =>
               last_call.result.value = None
        /\ last_call.op \in {"get_messages", "get_conversation_history"} =>
               last_call.result.value = <<>>
        /\ last_call.op = "get_context_for_agent" =>
               last_call.result.value = NoPriorContext

-----------------------------------------------------------------------------
\* _get_connection step by step: connect, the with-body, commit or rollback,
\* close; and the scopes each public operation opens, one after the other.

\* faulty variant: no finally clause, the except-branch re-raises without close
scope_next_without_finally(pc, raised) ==
    CASE pc = "body" -> IF raised THEN "rollback" ELSE "commit"
      [] pc = "commit" -> IF raised THEN "rollback" ELSE "close"
      [] pc = "rollback" -> "raise"
      [] pc = "close" -> IF raised THEN "raise" ELSE "call"

\* try: yield conn; conn.commit()  except: conn.rollback(); raise e
\* finally: conn.close()
scope_next(pc, raised) ==
    CASE pc = "body" -> IF raised THEN "rollback" ELSE "commit"
      [] pc = "commit" -> IF raised THEN "rollback" ELSE "close"
      [] pc = "rollback" -> "close"
      [] pc = "close" -> IF raised THEN "raise" ELSE "call"

\* the with-scopes an operation opens, in order
scopes_of(op) ==
    CASE op = "create_session" -> <<"create_session">>
      [] op = "get_session" -> <<"get_session">>
      [] op = "get_context_for_agent" -> <<"get_session", "get_lab_context">>
      [] op = "export_session_report" ->
             <<"get_session", "get_messages", "get_lab_context", "get_session_statistics">>

ScopedOperations ==
    {"create_session", "get_session", "get_context_for_agent", "export_session_report"}

\* the operation is called; no connection is open yet
scope_begin(op, id) ==
    /\ txn.pc = "idle"
    /\ op = "create_session" => Fresh(id)
    /\ txn' = [pc |-> "call", op |-> op, session_id |-> id, todo |-> scopes_of(op),
               opened |-> 0, closed |-> 0, conn |-> "closed", error |-> None,
               sessions |-> sessions, lab_context |-> lab_context]
    /\ UNCHANGED <<sessions, messages, lab_context, current_session_id, agent_current_session_id, clock, calls, ops,
                   last_call>>

\* conn = sqlite3.connect(...); yield conn
scope_connect ==
    /\ txn.pc = "call"
    /\ txn.todo # <<>>
    /\ txn' = [txn EXCEPT !.pc = "body", !.conn = "open", !.opened = @ + 1]
    /\ UNCHANGED <<sessions, messages, lab_context, current_session_id, agent_current_session_id, clock, calls, ops,
                   last_call>>

\* the body of the with statement runs: it returns, or a statement of it raises
\* (in create_session the second INSERT, in get_session_statistics
\* dict(cursor.fetchone()) when the session is missing)
scope_body(raised) ==
    /\ txn.pc = "body"
    /\ (Head(txn.todo) = "get_session_statistics"
            /\ ~get_session_statistics(sessions, messages, txn.session_id).ok) => raised
    /\ txn' = [txn EXCEPT
                  !.pc = scope_next("body", raised),
                  !.error = IF raised THEN Some("Exception") ELSE None,
                  !.sessions = IF Head(txn.todo) = "create_session"
                               THEN insert_session(@, txn.session_id, default_user, clock) ELSE @,
                  !.lab_context = IF Head(txn.todo) = "create_session" /\ ~raised
                                  THEN insert_initial_context(@, txn.session_id, clock)
                                  ELSE @]
    /\ UNCHANGED <<sessions, messages, lab_context, current_session_id, agent_current_session_id, clock, calls, ops,
                   last_call>>

\* conn.commit(): the writes of the body become the database, unless it raises
scope_commit(raised) ==
    /\ txn.pc = "commit"
    /\ sessions' = scope_exit(sessions, txn.sessions, raised)
    /\ lab_context' = scope_exit(lab_context, txn.lab_context, raised)
    /\ txn' = [txn EXCEPT !.pc = scope_next("commit", raised),
                          !.error = IF raised THEN Some("Exception") ELSE None]
    /\ UNCHANGED <<messages, current_session_id, agent_current_session_id, clock, calls, ops, last_call>>

\* except Exception as e: conn.rollback(); raise e
scope_rollback ==
    /\ txn.pc = "rollback"
    /\ txn' = [txn EXCEPT !.pc = scope_next("rollback", TRUE),
                          !.sessions = scope_exit(sessions, @, TRUE),
                          !.lab_context = scope_exit(lab_context, @, TRUE)]
    /\ UNCHANGED <<sessions, messages, lab_context, current_session_id, agent_current_session_id, clock, calls, ops,
                   last_call>>

\* finally: conn.close()
scope_close ==
    /\ txn.pc = "close"
    /\ txn' = [txn EXCEPT !.pc = scope_next("close", ~IsNone(txn.error)),
                          !.conn = "closed", !.closed = @ + 1,
                          !.todo = Tail(@)]
    /\ UNCHANGED <<sessions, messages, lab_context, current_session_id, agent_current_session_id, clock, calls, ops,
                   last_call>>

\* the operation ends: it returns after its last scope, or the exception of a
\* scope leaves it
scope_end ==
    /\ \/ txn.pc = "call" /\ txn.todo = <<>>
       \/ txn.pc = "raise"
    /\ last_call' = Call(txn.op,
                         [session_id |-> txn.session_id, scopes |-> txn.opened,
                          conn |-> txn.conn],
                         IF txn.pc = "raise" THEN "raised" ELSE "ok")
    /\ txn' = NoTxn
    /\ UNCHANGED <<sessions, messages, lab_context, current_session_id, agent_current_session_id, clock, calls, ops>>

\* SpecScope: the operations run scope by scope, with a failure possible in
\* every body and every commit
NextScope ==
    \/ \E op \in ScopedOperations, id \in SessionIds : scope_begin(op, id)
    \/ scope_connect
    \/ \E raised \in BOOLEAN : scope_body(raised)
    \/ \E raised \in BOOLEAN : scope_commit(raised)
    \/ scope_rollback
    \/ scope_close
    \/ scope_end

SpecScope == Init /\ [][NextScope]_vars

InOperation == txn.pc \in {"call", "body", "commit", "rollback", "close", "raise"}

\* between the scopes of an operation and when it ends: no connection is open
\* and no write is pending
NothingLeftOpen ==
    (InOperation /\ txn.pc \in {"call", "raise"}) =>
        /\ txn.conn = "closed"
        /\ txn.opened = txn.closed
        /\ txn.sessions = sessions /\ txn.lab_context = lab_context

\* the database changes only in a commit that does not raise, to the writes of
\* the body; an exception raised in a scope is the one the operation ends with
CommitsOnlyOnNormalReturn ==
    /\ (sessions' # sessions \/ lab_context' # lab_context) =>
           /\ txn.pc = "commit" /\ txn'.pc = "close" /\ IsNone(txn.error)
           /\ sessions' = txn.sessions /\ lab_context' = txn.lab_context
    /\ (InOperation /\ ~IsNone(txn.error)) =>
           /\ txn'.pc \in {"rollback", "close", "raise", "idle"}
           /\ txn'.pc # "idle" => txn'.error = txn.error
           /\ txn'.pc = "idle" => last_call'.result = "raised"

\* C18 as stated: the scope commits exactly on normal return, rolls back and
\* re-raises on failure, always closes, and every operation that ends has run
\* in exactly one scope.
C18_EveryOperationOneScope ==
    /\ [](NothingLeftOpen)
    /\ [][CommitsOnlyOnNormalReturn]_vars
    /\ [](last_call.op \in ScopedOperations => last_call.arg.scopes = 1)

\* C18: the scope commits exactly on normal return, rolls back and re-raises on
\* failure and always closes; every operation does its database work in such
\* scopes, one or several opened one after the other and never nested, so no
\* operation leaves a connection open or a transaction pending.
C18_ScopesCommitOrRollBackAndClose ==
    /\ [](NothingLeftOpen)
    /\ [][CommitsOnlyOnNormalReturn]_vars
    /\ [](InOperation =>
             /\ txn.opened - txn.closed = IF txn.conn = "open" THEN 1 ELSE 0
             /\ txn.opened <= Len(scopes_of(txn.op)))
    /\ [](last_call.op \in ScopedOperations =>
             /\ last_call.arg.conn = "closed"
             /\ last_call.arg.scopes >= 1
             /\ last_call.result = "ok" =>
                    last_call.arg.scopes = Len(scopes_of(last_call.op)))

\* C18 witness: create_session failed inside its scope and ended with the
\* exception, the connection closed and no row stored
C18_Witness ==
    /\ last_call = Call("create_session", [session_id |-> "s1", scopes |-> 1,
                                           conn |-> "closed"], "raised")
    /\ sessions = EmptyTable /\ lab_context = <<>>
    /\ txn = NoTxn

-----------------------------------------------------------------------------
\* SpecMissing: the write operations of SessionManager are called for every
\* session id, whether it was never started, is stored, or was deleted

NextMissing ==
    \/ \E id \in SessionIds : Free(start_session(id))
    \/ \E id \in SessionIds : Free(delete_session(id))
    \/ \E id \in SessionIds, status \in Statuses : Free(set_session_status(id, status))
    \/ \E id \in SessionIds : Free(archive(id))
    \/ \E id \in SessionIds, args \in CalledArgs : Free(call_update_lab_context(id, args))

SpecMissing == Init /\ [][NextMissing]_vars

\* C20: update_session_status, archive_session, delete_session and
\* update_lab_context called with a session id that has no session row leave
\* sessions, messages and lab_context as they are, and update_lab_context adds
\* no context row.
C20_WritesToMissingSessionChangeNothing ==
    [][\A id \in SessionIds :
          (/\ ~HasSessionRow(id)
           /\ \/ \E status \in Statuses : set_session_status(id, status)
              \/ archive(id)
              \/ delete_session(id)
              \/ \E args \in CalledArgs : call_update_lab_context(id, args)) =>
              /\ sessions' = sessions
              /\ messages' = messages
              /\ lab_context' = lab_context]_vars

-----------------------------------------------------------------------------
\* C21: resume_session(id) for an id with no stored session raises an error
\* whose message names that id, leaves the current-session pointer as it was and
\* changes no stored status; for an existing id it makes id the current session
\* and sets the status of that session to 'active'.
C21_ResumeMissingRaisesExistingActivates ==
    [][\A id \in SessionIds :
          resume_session(id) =>
              IF id \in DOMAIN sessions
              THEN /\ last_call'.result = "ok"
                   /\ current_session_id' = Some(id)
                   /\ DOMAIN sessions' = DOMAIN sessions
                   /\ sessions'[id].status = "active"
                   /\ \A o \in DOMAIN sessions \ {id} : sessions'[o] = sessions[o]
              ELSE /\ last_call'.result = "ValueError"
                   /\ \E i \in DOMAIN last_call'.message : last_call'.message[i] = id
                   /\ current_session_id' = current_session_id
                   /\ sessions' = sessions
                   /\ messages' = messages
                   /\ lab_context' = lab_context]_vars

\* a resume of a missing session failed while another session, not active, is current
C21_Witness ==
    /\ last_call.op = "resume_session"
    /\ last_call.result = "ValueError"
    /\ last_call.arg \notin DOMAIN sessions
    /\ ~IsNone(current_session_id)
    /\ TheValue(current_session_id) \in DOMAIN sessions
    /\ sessions[TheValue(current_session_id)].status = "completed"

-----------------------------------------------------------------------------
\* C22: while the wrapper has no current session (initially, or after
\* end_session), add_user_message and add_assistant_message raise an error, store
\* no message and change no session's last_active.
C22_NoCurrentSessionNoMessage ==
    [][\A role \in Roles, c \in Contents, t \in ToolCalls :
          (add_role_message(role, c, t) /\ IsNone(current_session_id)) =>
              /\ last_call'.result = "ValueError"
              /\ messages' = messages
              /\ \A id \in DOMAIN sessions :
                     /\ id \in DOMAIN sessions'
                     /\ sessions'[id].last_active = sessions[id].last_active
              /\ sessions' = sessions]_vars

\* a message was refused after end_session, for a session that holds messages
C22_Witness ==
    /\ last_call.op = "add_message"
    /\ last_call.result = "ValueError"
    /\ IsNone(current_session_id)
    /\ \E id \in DOMAIN sessions :
           /\ sessions[id].status \in {"paused", "completed"}
           /\ Len(RowsOf(messages, id)) > 0

-----------------------------------------------------------------------------
\* C23: status transitions are unrestricted: whatever the stored status of a
\* session, update_session_status with any of the four status values succeeds and
\* the stored status becomes the requested value, the other sessions being left
\* alone; a completed session that is resumed becomes active.
C23_StatusTransitionsUnrestricted ==
    [][/\ \A id \in SessionIds, st \in Statuses :
              (set_session_status(id, st) /\ id \in DOMAIN sessions) =>
                  /\ last_call'.result = "ok"
                  /\ DOMAIN sessions' = DOMAIN sessions
                  /\ sessions'[id].status = st
                  /\ sessions'[id].updated_at = clock
                  /\ sessions'[id].is_archived = sessions[id].is_archived
                  /\ sessions'[id].last_active = sessions[id].last_active
                  /\ \A o \in DOMAIN sessions \ {id} : sessions'[o] = sessions[o]
       /\ \A id \in SessionIds :
              (resume_session(id) /\ id \in DOMAIN sessions) =>
                  /\ last_call'.result = "ok"
                  /\ sessions'[id].status = "active"]_vars

\* a session that was archived has been set back to 'active'
C23_Witness ==
    /\ last_call.op = "update_session_status"
    /\ last_call.arg[2] = "active"
    /\ last_call.arg[1] \in DOMAIN sessions
    /\ sessions[last_call.arg[1]].status = "active"
    /\ sessions[last_call.arg[1]].is_archived = 1

-----------------------------------------------------------------------------
\* list_sessions

\* "if user_id:" / "if status:" for an Optional string: passed and not empty
given(o) == ~IsNone(o) /\ TheValue(o) # ""

\* the orders in which the members of S can be listed
Orderings(S) ==
    {seq \in [1..Cardinality(S) -> S] : \A i, j \in DOMAIN seq : i # j => seq[i] # seq[j]}

\* SELECT * FROM sessions WHERE 1=1 [AND user_id = ?] [AND status = ?]
\* ORDER BY last_active DESC LIMIT ?
\* The results the query can return: rows with equal last_active come in an order
\* the statement does not determine, and a negative LIMIT is no limit.
list_sessions(tbl, user_id, status, limit) ==
    LET matching == {id \in DOMAIN tbl :
                        /\ given(user_id) => tbl[id].user_id = TheValue(user_id)
                        /\ given(status) => tbl[id].status = TheValue(status)}
        ordered == {seq \in Orderings(matching) :
                       \A i, j \in DOMAIN seq :
                           i < j => tbl[seq[i]].last_active >= tbl[seq[j]].last_active}
        n == IF limit < 0 THEN Cardinality(matching)
             ELSE Min({limit, Cardinality(matching)})
    IN  {SubSeq([i \in DOMAIN seq |-> [session_id |-> seq[i]] @@ tbl[seq[i]]], 1, n) :
            seq \in ordered}

\* SessionManager.create_session(user_id=...)
create_session(id, user_id) ==
    /\ Fresh(id)
    /\ sessions' = scope_exit(sessions, insert_session(sessions, id, user_id, clock), FALSE)
    /\ lab_context' = scope_exit(lab_context,
                                 insert_initial_context(lab_context, id, clock), FALSE)
    /\ last_call' = Call("create_session", <<id, user_id>>, "ok")
    /\ UNCHANGED <<messages, current_session_id, clock, txn>>

\* SessionManager.add_message(session_id, role, content)
call_add_message(session_id, role, content) ==
    /\ add_message(session_id, role, content, None)
    /\ last_call' = Call("add_message", <<session_id, role, content>>, "ok")
    /\ UNCHANGED <<lab_context, current_session_id, clock, txn>>

\* SessionManager.list_sessions(user_id, status, limit)
call_list_sessions(user_id, status, limit) ==
    /\ \E result \in list_sessions(sessions, user_id, status, limit) :
           last_call' = Call("list_sessions",
                             [user_id |-> user_id, status |-> status, limit |-> limit],
                             result)
    /\ UNCHANGED <<sessions, messages, lab_context, current_session_id, clock, txn>>

UserIds == {default_user, "u2"}
UserFilters == {None, Some(""), Some("u2")}
StatusFilters == {None, Some("paused")}
Limits == {0, 1, 2}

\* SpecList: sessions of two users are created, paused and sent messages while the
\* clock may or may not reach the next second, and are listed under every filter
NextList ==
    \/ Counted(Tick)
    \/ \E id \in SessionIds, u \in UserIds : Counted(create_session(id, u))
    \/ \E id \in SessionIds : Counted(set_session_status(id, "paused"))
    \/ \E id \in SessionIds : Counted(call_add_message(id, "user", "hola"))
    \/ \E u \in UserFilters, st \in StatusFilters, l \in Limits :
           Free(call_list_sessions(u, st, l))

SpecList == Init /\ [][NextList]_vars

\* the rows of a list_sessions result satisfy the filters given, none that
\* satisfies them is left out while there is room, and last_active never increases
\* along the result
ListSessionsFilteredAndOrdered ==
    last_call.op = "list_sessions" =>
        LET a == last_call.arg
            r == last_call.result
            matching == {id \in DOMAIN sessions :
                            /\ given(a.user_id) => sessions[id].user_id = TheValue(a.user_id)
                            /\ given(a.status) => sessions[id].status = TheValue(a.status)}
        IN  /\ Len(r) <= a.limit
            /\ \A i \in DOMAIN r :
                   /\ r[i].session_id \in matching
                   /\ r[i] = [session_id |-> r[i].session_id] @@ sessions[r[i].session_id]
            /\ \A i, j \in DOMAIN r : i # j => r[i].session_id # r[j].session_id
            /\ Cardinality(matching) < a.limit =>
                   matching = {r[i].session_id : i \in DOMAIN r}
            /\ Len(r) = Min({a.limit, Cardinality(matching)})
            /\ \A i, j \in DOMAIN r : i < j => r[i].last_active >= r[j].last_active

\* the session of the stored message with the largest id: the one that most
\* recently received a message
LastMessaged == messages[Len(messages)].session_id

\* C24: list_sessions returns at most `limit` sessions, all of which satisfy the
\* filters given, omits none that satisfies them when fewer than `limit` match,
\* and orders them by last_active descending, so that the session that most
\* recently received a message comes first (here: whenever no session has a later
\* last_active than it).
C24_ListFilteredRecentFirst ==
    /\ ListSessionsFilteredAndOrdered
    /\ (/\ last_call.op = "list_sessions"
        /\ Len(last_call.result) > 0
        /\ Len(messages) > 0
        /\ LastMessaged \in {last_call.result[i].session_id : i \in DOMAIN last_call.result}
        /\ \A id \in DOMAIN sessions :
               sessions[id].last_active <= sessions[LastMessaged].last_active)
       => last_call.result[1].session_id = LastMessaged

-----------------------------------------------------------------------------
\* agent.py: the session functions and hooks of the agent module, which keeps a
\* current_session_id of its own next to the wrapper's

\* persistence.add_ports(ports), as a function of the context table
after_add_ports(ctx, ports) ==
    IF IsNone(current_session_id) THEN ctx
    ELSE AfterAddPorts(ctx, TheValue(current_session_id), ports)

\* persistence.add_service(port, service, version), as a function of the context table
after_add_service(ctx, port, service, version) ==
    IF IsNone(current_session_id) THEN ctx
    ELSE update_lab_context(
             ctx, TheValue(current_session_id),
             [NoArgs EXCEPT !.services =
                 Some(merged_services(get_lab_context(ctx, TheValue(current_session_id)),
                                      port, service, version))],
             clock)

\* for service in results['services']: persistence.add_service(
\*     port=service.get('port'), service=service.get('name', 'unknown'),
\*     version=service.get('version', 'unknown'))
RECURSIVE after_add_services(_, _)
after_add_services(ctx, services) ==
    IF services = <<>> THEN ctx
    ELSE after_add_services(
             after_add_service(ctx, Head(services).port,
                               or_default(Head(services).name, "unknown"),
                               Some(or_default(Head(services).version, "unknown"))),
             Tail(services))

\* what save_nmap_results stores once it has passed its check
merged_nmap_results(ctx, results) ==
    LET with_ports == IF IsNone(results.open_ports) THEN ctx
                      ELSE after_add_ports(ctx, TheValue(results.open_ports))
    IN  IF IsNone(results.services) THEN with_ports
        ELSE after_add_services(with_ports, TheValue(results.services))

\* faulty variant: the status of the result is not looked at
save_nmap_results_any_status(results) ==
    /\ lab_context' = IF IsNone(agent_current_session_id) THEN lab_context
                      ELSE merged_nmap_results(lab_context, results)
    /\ last_call' = Call("save_nmap_results", results, "ok")
    /\ UNCHANGED <<sessions, messages, current_session_id, agent_current_session_id,
                   clock, txn, calls, ops>>

\* save_nmap_results(results)
save_nmap_results(results) ==
    /\ lab_context' =
           IF IsNone(agent_current_session_id) \/ results.status # Some("success")
           THEN lab_context
           ELSE merged_nmap_results(lab_context, results)
    /\ last_call' = Call("save_nmap_results", results, "ok")
    /\ UNCHANGED <<sessions, messages, current_session_id, agent_current_session_id,
                   clock, txn, calls, ops>>

\* faulty variant: the ValueError of resume_session is swallowed and the id asked
\* for is returned
create_agent_with_persistence_without_fallback(session_id, new_id) ==
    /\ IF ~IsNone(session_id)
       THEN /\ resume_session(TheValue(session_id))
            /\ agent_current_session_id' = session_id
       ELSE /\ start_session(new_id)
            /\ agent_current_session_id' = Some(new_id)
    /\ UNCHANGED <<calls, ops>>

\* create_agent_with_persistence(session_id): resume the session, or start a new
\* one when none is named or the named one does not exist; new_id is the uuid4
\* of the new session, which is not the id asked for either
create_agent_with_persistence(session_id, new_id) ==
    /\ Some(new_id) # session_id
    /\ IF ~IsNone(session_id) /\ ~IsNone(get_session(sessions, TheValue(session_id)))
       THEN /\ resume_session(TheValue(session_id))
            /\ agent_current_session_id' = session_id
       ELSE /\ start_session(new_id)
            /\ agent_current_session_id' = Some(new_id)
    /\ UNCHANGED <<calls, ops>>

\* end_current_session(completed)
end_current_session(completed) ==
    /\ end_session(completed)
    /\ agent_current_session_id' = None
    /\ UNCHANGED <<calls, ops>>

\* the dictionaries a scan tool hands over: 'status' is 'success', 'error' or
\* missing; 'open_ports' and 'services' are present or not
ServiceEntries ==
    {<<[port |-> 21, name |-> None, version |-> Some("2.3.4")],
       [port |-> 80, name |-> Some("nginx"), version |-> None]>>}

NmapResults ==
    [status : {Some("success"), Some("error"), None},
     open_ports : {None, Some(<<80, 22>>), Some(<<443>>)},
     services : {None} \cup {Some(e) : e \in ServiceEntries}]

\* SpecAgent: the agent module's functions, and the wrapper's own start and end
\* of a session, which move the wrapper's pointer without the module's
NextAgent ==
    \/ \E o \in {None} \cup {Some(id) : id \in SessionIds}, new \in SessionIds :
           create_agent_with_persistence(o, new)
    \/ end_current_session(FALSE)
    \/ \E id \in SessionIds : Free(start_session(id))
    \/ Free(end_session(FALSE))
    \/ \E results \in NmapResults : save_nmap_results(results)

SpecAgent == Init /\ [][NextAgent]_vars

\* C25: a tool result whose status is not 'success' is never merged into the
\* context: save_nmap_results called with such a result, or while the module or
\* the wrapper has no current session, leaves the stored context of every
\* session, its open_ports and services included, unchanged.
C25_UnsuccessfulResultNeverMerged ==
    [][\A results \in NmapResults :
          (/\ last_call'.op = "save_nmap_results"
           /\ save_nmap_results(results)
           /\ \/ results.status # Some("success")
              \/ IsNone(agent_current_session_id)
              \/ IsNone(current_session_id)) =>
              /\ lab_context' = lab_context
              /\ sessions' = sessions]_vars

\* a failed scan that names ports and services was handed over while the current
\* session already stores other ports
C25_Witness ==
    /\ last_call.op = "save_nmap_results"
    /\ last_call.arg.status = Some("error")
    /\ last_call.arg.open_ports = Some(<<80, 22>>)
    /\ ~IsNone(last_call.arg.services)
    /\ ~IsNone(agent_current_session_id)
    /\ agent_current_session_id = current_session_id
    /\ \E i \in DOMAIN lab_context :
           /\ lab_context[i].session_id = TheValue(current_session_id)
           /\ lab_context[i].open_ports = json_dumps(<<443>>)
           /\ IsNull(lab_context[i].services)

-----------------------------------------------------------------------------
\* The digest of get_context_for_agent

\* SpecDigest: sessions are started, ports, a service and vulnerabilities are
\* added to the current one, and the digest of every session is asked for
NextDigest ==
    \/ \E id \in SessionIds : Free(start_session(id))
    \/ \E ports \in {<<445, 22>>, <<139, 21>>} : Free(add_ports(ports))
    \/ Free(add_service(21, "ftp", None))
    \/ Counted(add_vulnerability("vsftpd", "backdoor", "critical"))
    \/ \E id \in SessionIds : Free(read("get_context_for_agent", id))

SpecDigest == Init /\ [][NextDigest]_vars

\* text.split("\n")
RECURSIVE splitlines(_)
splitlines(text) ==
    LET breaks == {i \in 1..Len(text) : SubSeq(text, i, i) = "\n"}
    IN IF breaks = {} THEN <<text>>
       ELSE <<SubSeq(text, 1, Min(breaks) - 1)>> \o
            splitlines(SubSeq(text, Min(breaks) + 1, Len(text)))

\* the lines of the digest the last call returned
DigestLines == set(splitlines(last_call.result.value))

\* the numbers of a list written one after the other, separated by ", "
RECURSIVE Listed(_)
Listed(numbers) ==
    IF Len(numbers) = 0 THEN ""
    ELSE IF Len(numbers) = 1 THEN ToString(numbers[1])
    ELSE Listed(SubSeq(numbers, 1, Len(numbers) - 1)) \o ", " \o
         ToString(numbers[Len(numbers)])

\* the list a JSON column of the context row of session id stores, empty when NULL
StoredList(id, field) ==
    LET col == TheValue(StoredContext(id))[field]
    IN IF IsNone(col) THEN <<>> ELSE TheValue(col)

DigestReturnedFor(id) ==
    /\ last_call.op = "get_context_for_agent"
    /\ last_call.arg = id
    /\ HasSessionRow(id)
    /\ ~IsNone(StoredContext(id))

\* the digest lists the stored ports of an existing session, all of them, comma-
\* joined in stored order, which is ascending; for the ports 21, 22, 139, 445 it
\* has the line 'Puertos abiertos: 21, 22, 139, 445'
DigestListsStoredPorts ==
    \A id \in SessionIds :
        (DigestReturnedFor(id) /\ StoredList(id, "open_ports") # <<>>) =>
            /\ ("Puertos abiertos: " \o Listed(StoredList(id, "open_ports"))) \in DigestLines
            /\ StrictlyAscending(StoredList(id, "open_ports"))
            /\ StoredList(id, "open_ports") = <<21, 22, 139, 445>> =>
                   "Puertos abiertos: 21, 22, 139, 445" \in DigestLines

\* C26: for every existing session the digest lists all stored open ports and
\* reports a vulnerability count equal to the number of stored vulnerability
\* entries; for the ports 21, 22, 139, 445, the service 21/ftp and one
\* vulnerability it contains 'Puertos abiertos: 21, 22, 139, 445' and
\* 'Vulnerabilidades encontradas: 1'.
C26_DigestReportsPortsAndVulnerabilityCount ==
    /\ DigestListsStoredPorts
    /\ \A id \in SessionIds :
           DigestReturnedFor(id) =>
               ("Vulnerabilidades encontradas: " \o
                ToString(Len(StoredList(id, "vulnerabilities")))) \in DigestLines

\* C26 as the code has it: the digest lists all stored open ports, and when at
\* least one vulnerability is stored it reports their number; for a session with
\* no stored vulnerability the digest has no vulnerability line, and for one with
\* no stored port no port line.
C26_DigestReportsPortsAndPositiveCount ==
    /\ DigestListsStoredPorts
    /\ \A id \in SessionIds :
           DigestReturnedFor(id) =>
               LET n == Len(StoredList(id, "vulnerabilities"))
                   count_lines == {l \in DigestLines :
                                      IsPrefix("Vulnerabilidades encontradas", l)}
                   port_lines == {l \in DigestLines : IsPrefix("Puertos abiertos", l)}
               IN  /\ n > 0 => count_lines = {"Vulnerabilidades encontradas: " \o ToString(n)}
                   /\ n = 0 => count_lines = {}
                   /\ n = 1 => "Vulnerabilidades encontradas: 1" \in DigestLines
                   /\ StoredList(id, "open_ports") = <<>> => port_lines = {}
                   /\ Cardinality(port_lines) <= 1

\* the digest of the scenario: ports 21, 22, 139, 445, service 21/ftp, one
\* vulnerability
C26_Witness ==
    /\ DigestReturnedFor("s1")
    /\ StoredList("s1", "open_ports") = <<21, 22, 139, 445>>
    /\ Len(StoredList("s1", "vulnerabilities")) = 1
    /\ "Puertos abiertos: 21, 22, 139, 445" \in DigestLines
    /\ "Servicios: 21/ftp" \in DigestLines
    /\ "Vulnerabilidades encontradas: 1" \in DigestLines

-----------------------------------------------------------------------------
\* export_session_report read by read: each of the four reads has a connection
\* scope of its own, so other calls can be served between them

\* session = self.get_session(session_id)
export_get_session(c, session_id) ==
    /\ calls[c].pc \in {"idle", "returned", "raised"}
    /\ calls' = [calls EXCEPT ![c] =
                    [pc |-> "get_messages", session_id |-> session_id,
                     stored_at_call |-> Len(RowsOf(messages, session_id)),
                     session |-> get_session(sessions, session_id)]]
    /\ UNCHANGED <<sessions, messages, lab_context, current_session_id,
                   agent_current_session_id, clock, txn, ops, last_call>>

\* messages = self.get_messages(session_id)
export_get_messages(c) ==
    /\ calls[c].pc = "get_messages"
    /\ calls' = [calls EXCEPT ![c] =
                    [messages |-> get_messages(messages, calls[c].session_id, None)] @@
                    [@ EXCEPT !.pc = "get_lab_context"]]
    /\ UNCHANGED <<sessions, messages, lab_context, current_session_id,
                   agent_current_session_id, clock, txn, ops, last_call>>

\* lab_context = self.get_lab_context(session_id)
export_get_lab_context(c) ==
    /\ calls[c].pc = "get_lab_context"
    /\ calls' = [calls EXCEPT ![c] =
                    [lab_context |-> get_lab_context(lab_context, calls[c].session_id)] @@
                    [@ EXCEPT !.pc = "get_session_statistics"]]
    /\ UNCHANGED <<sessions, messages, lab_context, current_session_id,
                   agent_current_session_id, clock, txn, ops, last_call>>

\* statistics = self.get_session_statistics(session_id); return {...}
export_get_session_statistics(c) ==
    /\ calls[c].pc = "get_session_statistics"
    /\ LET statistics == get_session_statistics(sessions, messages, calls[c].session_id)
       IN calls' = [calls EXCEPT ![c] =
                       IF statistics.ok
                       THEN [statistics |-> statistics.value] @@
                            [@ EXCEPT !.pc = "returned"]
                       ELSE [error |-> statistics.error] @@ [@ EXCEPT !.pc = "raised"]]
    /\ UNCHANGED <<sessions, messages, lab_context, current_session_id,
                   agent_current_session_id, clock, txn, ops, last_call>>

\* SpecExport: one caller exports reports of sessions, started or not, while
\* sessions are started and user and assistant messages are appended
NextExport ==
    \/ \E id \in SessionIds : Free(start_session(id))
    \/ Counted(add_role_message("user", "hola", None))
    \/ Counted(add_role_message("assistant", "hola",
                                Some(py_list(<<py_dict(py_str("name") :> py_str("nmap"))>>))))
    \/ \E id \in SessionIds : export_get_session("c1", id)
    \/ export_get_messages("c1")
    \/ export_get_lab_context("c1")
    \/ export_get_session_statistics("c1")

SpecExport == Init /\ [][NextExport]_vars

\* the export of caller c returned, and the session it is about stores as many
\* messages as when the export was called
ExportedWithStored(c, n) ==
    /\ calls[c].pc = "returned"
    /\ HasSessionRow(calls[c].session_id)
    /\ calls[c].stored_at_call = n
    /\ Len(RowsOf(messages, calls[c].session_id)) = n

\* C27: for every existing session with n >= 0 stored messages,
\* export_session_report returns a message list of exactly n entries and a
\* statistics block whose total_messages is n and is the sum of the per-role
\* counts; with n = 0 the per-role mapping is empty and the total is zero.
C27_ReportCountsAllMessages ==
    \A c \in Callers :
        \A n \in 0..Len(messages) :
            ExportedWithStored(c, n) =>
                LET counts == calls[c].statistics.message_counts
                IN  /\ Len(calls[c].messages) = n
                    /\ calls[c].statistics.total_messages = n
                    /\ sum_values(counts) = n
                    /\ \A r \in DOMAIN counts :
                           counts[r] = Cardinality({i \in DOMAIN calls[c].messages :
                                                       calls[c].messages[i].role = r})
                    /\ n = 0 => DOMAIN counts = {} /\ calls[c].statistics.total_messages = 0

\* a report of a session with three messages, of both roles, was returned
C27_Witness ==
    /\ ExportedWithStored("c1", 3)
    /\ Len(calls["c1"].messages) = 3
    /\ calls["c1"].statistics.total_messages = 3
    /\ DOMAIN calls["c1"].statistics.message_counts = {"user", "assistant"}
    /\ Len(messages) = 4

\* a report whose message list and statistics were read on either side of an append
ReportReadAcrossAppend ==
    /\ calls["c1"].pc = "returned"
    /\ Len(calls["c1"].messages) # calls["c1"].statistics.total_messages

-----------------------------------------------------------------------------
\* SessionManager.__init__ on an existing database

\* schema.sql, CREATE TABLE IF NOT EXISTS: a table that exists keeps its rows.
\* In every state of the model the three tables exist, Init being the state that
\* the first construction leaves.
create_table_if_not_exists(tbl) == tbl

\* faulty variant: a missing schema file is passed over in silence
SessionManager_without_schema_check(schema_path_exists) ==
    /\ last_call' = Call("SessionManager", schema_path_exists, "ok")
    /\ UNCHANGED <<sessions, messages, lab_context, current_session_id, clock, txn>>

\* SessionManager(db_path): _initialize_database runs the schema inside a
\* connection scope when the schema file exists and raises FileNotFoundError
\* inside the scope when it does not
SessionManager(schema_path_exists) ==
    /\ sessions' = scope_exit(sessions,
                              IF schema_path_exists
                              THEN create_table_if_not_exists(sessions) ELSE sessions,
                              ~schema_path_exists)
    /\ messages' = scope_exit(messages,
                              IF schema_path_exists
                              THEN create_table_if_not_exists(messages) ELSE messages,
                              ~schema_path_exists)
    /\ lab_context' = scope_exit(lab_context,
                                 IF schema_path_exists
                                 THEN create_table_if_not_exists(lab_context)
                                 ELSE lab_context,
                                 ~schema_path_exists)
    /\ last_call' = Call("SessionManager", schema_path_exists,
                         IF schema_path_exists THEN "ok" ELSE "FileNotFoundError")
    /\ UNCHANGED <<current_session_id, clock, txn>>

\* SpecInit: managers are constructed on the database, with and without the
\* schema file, as sessions, messages and context data are stored in it
NextInit ==
    \/ \E id \in SessionIds : Free(start_session(id))
    \/ Counted(add_role_message("user", "hola", None))
    \/ Free(add_ports(<<80, 22>>))
    \/ Free(end_session(TRUE))
    \/ \E schema_path_exists \in BOOLEAN : Free(SessionManager(schema_path_exists))

SpecInit == Init /\ [][NextInit]_vars

\* C28: schema initialization is idempotent: constructing a SessionManager on a
\* database that already holds sessions, messages and contexts leaves every
\* stored row unchanged, and constructing one when the schema definition file is
\* missing raises an error instead of yielding a manager.
C28_InitializationIdempotentOrFatal ==
    [][\A schema_path_exists \in BOOLEAN :
          SessionManager(schema_path_exists) =>
              /\ sessions' = sessions
              /\ messages' = messages
              /\ lab_context' = lab_context
              /\ last_call'.result = IF schema_path_exists THEN "ok"
                                     ELSE "FileNotFoundError"]_vars

\* a manager was constructed on a database that holds a completed session with
\* messages and ports
C28_Witness ==
    /\ last_call.op = "SessionManager"
    /\ last_call.result = "ok"
    /\ \E id \in DOMAIN sessions :
           /\ sessions[id].status = "completed"
           /\ Len(RowsOf(messages, id)) > 1
           /\ \E i \in DOMAIN lab_context :
                  /\ lab_context[i].session_id = id
                  /\ lab_context[i].open_ports = json_dumps(<<22, 80>>)

-----------------------------------------------------------------------------
\* The structured fields of a message: tool_calls, tool_results, metadata

\* SessionManager.add_message(session_id, role, content, tool_calls, tool_results,
\* metadata), which returns cursor.lastrowid
call_add_message_fields(session_id, role, content, tool_calls, tool_results, metadata) ==
    /\ messages' = insert_message_fields(messages, session_id, role, content, tool_calls,
                                         tool_results, metadata, clock)
    /\ sessions' = touch_last_active(sessions, session_id, clock)
    /\ last_call' = Call("add_message",
                         [session_id |-> session_id, tool_calls |-> tool_calls,
                          tool_results |-> tool_results, metadata |-> metadata],
                         messages'[Len(messages')].message_id)
    /\ UNCHANGED <<lab_context, current_session_id, clock, txn>>

\* the structured fields messages are appended with: none; JSON structures;
\* empty collections; a dict with an int key and a dict with a tuple value
NoFields == [tool_calls |-> None, tool_results |-> None, metadata |-> None]

JsonFieldsInput ==
    [tool_calls |-> Some(py_list(<<py_dict(py_str("name") :> py_str("nmap"))>>)),
     tool_results |-> Some(py_list(<<py_dict(py_str("open_ports") :>
                                             py_list(<<py_int(22), py_int(80)>>))>>)),
     metadata |-> Some(py_dict(py_str("source") :> py_str("cli")))]

EmptyFields ==
    [tool_calls |-> Some(py_list(<<>>)), tool_results |-> None,
     metadata |-> Some(py_dict(<<>>))]

PythonOnlyFields ==
    [tool_calls |-> Some(py_list(<<py_dict(py_int(80) :> py_str("http"))>>)),
     tool_results |-> None,
     metadata |-> Some(py_dict(py_str("ports") :> py_tuple(<<py_int(80)>>)))]

FieldInputs == {NoFields, JsonFieldsInput, EmptyFields, PythonOnlyFields}

\* SpecFields: messages with every kind of structured fields are appended to
\* sessions, started or not
NextFields ==
    \/ \E id \in SessionIds : Free(start_session(id))
    \/ \E id \in SessionIds, f \in FieldInputs :
           Counted(call_add_message_fields(id, "assistant", "hola", f.tool_calls,
                                           f.tool_results, f.metadata))

SpecFields == Init /\ [][NextFields]_vars

\* the message that get_messages returns for the row just appended
ReturnedAfterAppend(id) ==
    LET found == get_messages(messages', id, None)
    IN found[CHOOSE i \in DOMAIN found : found[i].message_id = last_call'.result]

Appends(id, f) ==
    call_add_message_fields(id, "assistant", "hola", f.tool_calls, f.tool_results,
                            f.metadata)

\* a structure JSON has as it is: strings, integers, lists, dicts with str keys
RECURSIVE json_native(_)
json_native(v) ==
    CASE kind(v) \in {"str", "int"} -> TRUE
      [] kind(v) = "list" -> \A i \in DOMAIN v.list : json_native(v.list[i])
      [] kind(v) = "tuple" -> FALSE
      [] kind(v) = "dict" ->
             \A k \in DOMAIN v.dict : kind(k) = "str" /\ json_native(v.dict[k])

\* C29: structured message fields round-trip: a message appended with non-empty
\* tool_calls, tool_results or metadata is returned by get_messages with
\* structures equal to those supplied, and a message appended without one of
\* these fields is returned with that field absent (None), never as an empty
\* collection.
C29_StructuredFieldsRoundTrip ==
    [][\A id \in SessionIds, f \in FieldInputs :
          Appends(id, f) =>
              LET m == ReturnedAfterAppend(id)
                  same(given_value, returned) ==
                      /\ IsNone(given_value) => returned = None
                      /\ (~IsNone(given_value) /\ ~is_empty(TheValue(given_value))) =>
                             returned = given_value
                      /\ returned = None \/ ~is_empty(TheValue(returned))
              IN  /\ same(f.tool_calls, m.tool_calls)
                  /\ same(f.tool_results, m.tool_results)
                  /\ same(f.metadata, m.message_metadata)]_vars

\* C29 as the code has it: a non-empty structure made of strings, numbers, lists
\* and dicts with str keys is returned equal to the one supplied; a field that is
\* not supplied, or is supplied empty, is returned as None and never as an empty
\* collection; any other non-empty structure is returned as json.loads reads what
\* json.dumps wrote: a tuple as a list, an int key as a str key.
C29_JsonStructuresRoundTrip ==
    [][\A id \in SessionIds, f \in FieldInputs :
          Appends(id, f) =>
              LET m == ReturnedAfterAppend(id)
                  same(given_value, returned) ==
                      /\ (IsNone(given_value) \/ is_empty(TheValue(given_value))) =>
                             returned = None
                      /\ (~IsNone(given_value) /\ ~is_empty(TheValue(given_value))) =>
                             /\ returned # None
                             /\ json_native(TheValue(returned))
                             /\ json_native(TheValue(given_value)) <=>
                                    returned = given_value
                      /\ returned = None \/ ~is_empty(TheValue(returned))
              IN  /\ same(f.tool_calls, m.tool_calls)
                  /\ same(f.tool_results, m.tool_results)
                  /\ same(f.metadata, m.message_metadata)
                  /\ f = PythonOnlyFields =>
                         /\ m.tool_calls =
                                Some(py_list(<<py_dict(py_str("80") :> py_str("http"))>>))
                         /\ m.message_metadata =
                                Some(py_dict(py_str("ports") :> py_list(<<py_int(80)>>)))]_vars

\* a message was appended with JSON structures in its three fields and is read
\* back with them; another one of the session was appended with none
C29_Witness ==
    /\ last_call.op = "add_message"
    /\ last_call.arg.tool_calls = JsonFieldsInput.tool_calls
    /\ LET found == get_messages(messages, last_call.arg.session_id, None)
       IN  /\ Len(found) = 2
           /\ found[1].tool_calls = None /\ found[1].message_metadata = None
           /\ found[2].message_id = last_call.result
           /\ found[2].tool_calls = JsonFieldsInput.tool_calls
           /\ found[2].tool_results = JsonFieldsInput.tool_results
           /\ found[2].message_metadata = JsonFieldsInput.metadata

-----------------------------------------------------------------------------
\* The messages a limited history holds

\* {role, content} of the rows, as get_conversation_history projects them
history_of(rows) ==
    [i \in DOMAIN rows |-> [role |-> rows[i].role, content |-> rows[i].content]]

\* C30: when a session holds more than N messages, get_conversation_history(session,
\* max_messages=N), which AgentPersistence.get_history passes through, returns
\* the N most recently appended messages.
C30_HistoryIsMostRecent ==
    \A id \in SessionIds, N \in 1..Len(messages) :
        LET appended_rows == RowsOf(messages, id)
        IN (HasSessionRow(id) /\ Len(appended_rows) > N) =>
               get_conversation_history(messages, id, N) =
                   history_of(SubSeq(appended_rows, Len(appended_rows) - N + 1,
                                     Len(appended_rows)))

\* what the query returns instead: the N messages appended first
HistoryIsOldest ==
    \A id \in SessionIds, N \in 1..Len(messages) :
        LET appended_rows == RowsOf(messages, id)
        IN Len(appended_rows) > N =>
               get_conversation_history(messages, id, N) =
                   history_of(SubSeq(appended_rows, 1, N))

-----------------------------------------------------------------------------
\* AgentPersistence: the reads of the current session

WrapperReads == {"get_statistics", "export_report", "get_history", "get_active_sessions"}

\* the dict a manager read returns, as the Optional[Dict] the wrapper returns
optional_dict(outcome) == IF outcome.ok THEN Returned(Some(outcome.value)) ELSE outcome

\* what get_statistics(), export_report(), get_history() and get_active_sessions()
\* can return or raise: "if not self.current_session_id: return None" ([] for
\* get_history), else the manager's read of the current session;
\* get_active_sessions is list_sessions(status='active', limit=10)
wrapper_read_results(op) ==
    LET session_id == TheValue(current_session_id)
    IN CASE op = "get_statistics" ->
                IF IsNone(current_session_id) THEN {Returned(None)}
                ELSE {optional_dict(get_session_statistics(sessions, messages, session_id))}
         [] op = "export_report" ->
                IF IsNone(current_session_id) THEN {Returned(None)}
                ELSE {optional_dict(export_session_report(sessions, messages, lab_context,
                                                          session_id))}
         [] op = "get_history" ->
                IF IsNone(current_session_id) THEN {Returned(<<>>)}
                ELSE {Returned(get_conversation_history(messages, session_id, 20))}
         [] op = "get_active_sessions" ->
                {Returned(r) : r \in list_sessions(sessions, None, Some("active"), 10)}

\* a read of the wrapper is called: the database and the pointer stay as they are
wrapper_read(op) ==
    /\ \E outcome \in wrapper_read_results(op) :
           last_call' = Call(op, current_session_id, outcome)
    /\ UNCHANGED <<sessions, messages, lab_context, current_session_id, clock, txn>>

\* SpecWrapper: one AgentPersistence starts, ends and resumes sessions, adds
\* messages and lab context, with or without a current session, and reads
NextWrapper ==
    \/ \E id \in SessionIds : Free(start_session(id))
    \/ \E id \in SessionIds : Counted(resume_session(id))
    \/ \E b \in BOOLEAN : Counted(end_session(b))
    \/ \E r \in Roles : Counted(add_role_message(r, "hola", None))
    \/ \E op \in WrapperReads : Counted(wrapper_read(op))
    \/ Counted(update_phase("exploitation"))
    \/ Counted(add_finding("service", "vsftpd 2.3.4", Some("high")))
    \/ Counted(add_ports(<<80, 22>>))
    \/ Counted(add_service(80, "http", Some("1.0")))
    \/ Counted(add_vulnerability("vsftpd", "backdoor", "critical"))
    \/ Counted(add_credential("root", "toor", Some("ssh")))
    \/ Counted(set_flag("user_flag", "A"))
    \/ Counted(add_notes(<<"a">>))

SpecWrapper == Init /\ [][NextWrapper]_vars

\* the sessions that are completed and hold messages
CompletedWithMessages ==
    {id \in DOMAIN sessions :
        sessions[id].status = "completed" /\ Len(RowsOf(messages, id)) > 0}

\* C31: after start_session, some messages and end_session(mark_as_completed=True),
\* get_statistics and export_report return the statistics and the report of the
\* session just ended: a record with total_messages, and one with a messages list.
C31_StatisticsAndReportOfEndedSession ==
    [][(/\ last_call.op = "end_session" /\ last_call.arg = TRUE
        /\ IsNone(current_session_id)
        /\ CompletedWithMessages # {}
        /\ last_call'.op \in {"get_statistics", "export_report"}) =>
           /\ last_call'.result.ok
           /\ ~IsNone(last_call'.result.value)
           /\ \E id \in CompletedWithMessages :
                  LET returned == TheValue(last_call'.result.value)
                  IN IF last_call'.op = "get_statistics"
                     THEN returned.total_messages = Len(RowsOf(messages, id))
                     ELSE Len(returned.messages) = Len(RowsOf(messages, id))]_vars

\* what the two calls return after end_session: None
StatisticsAndReportAbsentAfterEnd ==
    [][(/\ last_call.op = "end_session"
        /\ last_call'.op \in {"get_statistics", "export_report"}) =>
           last_call'.result = Returned(None)]_vars

-----------------------------------------------------------------------------
\* create_agent_with_persistence

SessionArguments == {None} \cup {Some(id) : id \in SessionIds}

\* C33: create_agent_with_persistence(session_id) finishes with a current session
\* that exists in the store with status 'active': an existing id is resumed, for
\* a missing id (or none) a new session is created, and the returned id equals
\* the wrapper's current-session pointer and is never the missing id.
C33_AgentStartsOnActiveSession ==
    [][\A o \in SessionArguments, new \in SessionIds :
          (/\ last_call'.op \in {"resume_session", "start_session"}
           /\ create_agent_with_persistence(o, new)) =>
              LET returned == agent_current_session_id'
                  exists == ~IsNone(o) /\ TheValue(o) \in DOMAIN sessions
              IN  /\ ~IsNone(returned)
                  /\ returned = current_session_id'
                  /\ TheValue(returned) \in DOMAIN sessions'
                  /\ sessions'[TheValue(returned)].status = "active"
                  /\ exists => /\ returned = o
                               /\ DOMAIN sessions' = DOMAIN sessions
                  /\ ~exists => /\ returned # o
                                /\ TheValue(returned) \notin DOMAIN sessions
                                /\ DOMAIN sessions' = DOMAIN sessions \cup {TheValue(returned)}
                                /\ \A id \in DOMAIN sessions : sessions'[id] = sessions[id]]_vars

\* C33 witness: a paused session was resumed by create_agent_with_persistence
\* while the wrapper pointed at another session, and is the current one of both
C33_Witness ==
    /\ last_call.op = "resume_session" /\ last_call.result = "ok"
    /\ agent_current_session_id = Some(last_call.arg)
    /\ current_session_id = agent_current_session_id
    /\ DOMAIN sessions = SessionIds
    /\ \A id \in SessionIds :
           sessions[id].status = IF id = last_call.arg THEN "active" ELSE "paused"

\* a session was created because the one asked for does not exist
NewSessionForMissingId ==
    /\ last_call.op = "start_session"
    /\ agent_current_session_id = Some(last_call.arg)
    /\ DOMAIN sessions = {last_call.arg}

-----------------------------------------------------------------------------
\* The services and the flag badges of the digest

DigestServicePorts == {21, 22, 80, 139, 443, 445}
CapturedFlagValues == {"", "e3d0796d"}

\* SpecBadges: up to six services and the two flags, with an empty or a non-empty
\* value, are stored for one session, and the digest is read
NextBadges ==
    \/ Free(start_session("s1"))
    \/ \E port \in DigestServicePorts : Free(add_service(port, "svc", None))
    \/ Free(add_service(21, "ftp", None))
    \/ \E t \in FlagTypes, v \in CapturedFlagValues : Free(set_flag(t, v))
    \/ \E id \in SessionIds : Free(read("get_context_for_agent", id))

SpecBadges == Init /\ [][NextBadges]_vars

\* text occurs somewhere in the digest
Contains(digest, text) ==
    \E i \in 1..(Len(digest) - Len(text) + 1) : SubSeq(digest, i, i + Len(text) - 1) = text

\* "port/service" of the first n stored services, separated by ", "
RECURSIVE Pairs(_, _)
Pairs(services, n) ==
    IF n = 0 THEN ""
    ELSE (IF n = 1 THEN "" ELSE Pairs(services, n - 1) \o ", ") \o
         ToString(services[n].port) \o "/" \o services[n].service

\* the flags stored for session id, the empty mapping when none is
StoredFlags(id) ==
    LET col == TheValue(StoredContext(id)).flags
    IN IF IsNone(col) THEN EmptyTable ELSE TheValue(col)

Captured(id, flag_type) ==
    flag_type \in DOMAIN StoredFlags(id) /\ StoredFlags(id)[flag_type] # ""

\* C34: the digest shows at most five port/service pairs, the first five stored
\* services in stored order, shows the user-flag and the root-flag badge exactly
\* when the flags mapping has a non-empty value for 'user_flag' and 'root_flag'
\* respectively, and never shows the value of a flag.
C34_DigestFiveServicesAndBadges ==
    \A id \in SessionIds :
        DigestReturnedFor(id) =>
            LET services == StoredList(id, "services")
                digest == last_call.result.value
                service_lines == {l \in DigestLines : IsPrefix("Servicios", l)}
                slashes(l) == Cardinality({i \in 1..Len(l) : SubSeq(l, i, i) = "/"})
            IN  /\ services = <<>> => service_lines = {}
                /\ services # <<>> =>
                       service_lines = {"Servicios: " \o Pairs(services, Min({5, Len(services)}))}
                /\ \A l \in service_lines : slashes(l) <= 5
                /\ "[v] User flag capturada" \in DigestLines <=> Captured(id, "user_flag")
                /\ "[v] Root flag capturada" \in DigestLines <=> Captured(id, "root_flag")
                /\ \A t \in DOMAIN StoredFlags(id) :
                       StoredFlags(id)[t] # "" => ~Contains(digest, StoredFlags(id)[t])

\* C34 witness: six services are stored, the digest lists the first five; the user
\* flag is stored with a value and has its badge, the root flag is stored empty
\* and has none
C34_Witness ==
    /\ DigestReturnedFor("s1")
    /\ Len(StoredList("s1", "services")) = 6
    /\ StoredList("s1", "services")[1].port = 445
    /\ StoredList("s1", "services")[6].port = 21
    /\ "Servicios: 445/svc, 22/svc, 80/svc, 139/svc, 443/svc" \in DigestLines
    /\ StoredFlags("s1") = ("user_flag" :> "e3d0796d") @@ ("root_flag" :> "")
    /\ "[v] User flag capturada" \in DigestLines
    /\ "[v] Root flag capturada" \notin DigestLines

LabContextOperations ==
    {"update_phase", "add_finding", "add_ports", "add_service", "add_vulnerability",
     "add_credential", "set_flag", "add_notes"}

\* C35: whenever the wrapper has no current session, every lab-context operation
\* returns without error and leaves the whole database unchanged, and get_history
\* returns an empty list.
C35_NoCurrentSessionNothingWritten ==
    /\ [][(IsNone(current_session_id) /\ last_call'.op \in LabContextOperations) =>
             /\ last_call'.result = "no_session"
             /\ sessions' = sessions
             /\ messages' = messages
             /\ lab_context' = lab_context
             /\ IsNone(current_session_id')]_vars
    /\ [][(IsNone(current_session_id) /\ last_call'.op = "get_history") =>
             /\ last_call'.result = Returned(<<>>)
             /\ sessions' = sessions
             /\ messages' = messages
             /\ lab_context' = lab_context]_vars

\* C35 witness: a session with a message and a phase was ended, and set_flag
\* called after that returned without storing a flag
C35_Witness ==
    /\ last_call.op = "set_flag" /\ last_call.result = "no_session"
    /\ IsNone(current_session_id)
    /\ DOMAIN sessions = {"s1"}
    /\ Len(messages) = 1
    /\ StoredContext("s1") # None
    /\ TheValue(StoredContext("s1")).phase = Some("exploitation")
    /\ IsNone(TheValue(StoredContext("s1")).flags)

\* get_history was called without a current session while messages are stored
HistoryEmptyWithoutSession ==
    /\ last_call.op = "get_history" /\ IsNone(last_call.arg)
    /\ last_call.result = Returned(<<>>)
    /\ Len(messages) = 2

-----------------------------------------------------------------------------
\* The archived flag and the status

\* C36: in every reachable state a session's archived flag is set if and only if
\* its status is 'archived': archive_session sets both together, and no later
\* status update, resume_session or end_session leaves a session with the flag
\* set and another status.
C36_ArchivedFlagIffArchivedStatus ==
    \A id \in DOMAIN sessions :
        sessions[id].is_archived = 1 <=> sessions[id].status = "archived"

\* archive_session itself sets the flag and the status in one statement
ArchiveSetsFlagAndStatus ==
    [][\A id \in DOMAIN sessions :
          (last_call'.op = "archive_session" /\ last_call'.arg = id) =>
              sessions'[id].is_archived = 1 /\ sessions'[id].status = "archived"]_vars

\* no step clears the flag of a session that stays stored
ArchivedFlagNeverCleared ==
    [][\A id \in DOMAIN sessions \cap DOMAIN sessions' :
          sessions[id].is_archived = 1 => sessions'[id].is_archived = 1]_vars

\* an archived session was resumed: its status is 'active', its flag still set
ResumedArchivedSession ==
    \E id \in DOMAIN sessions :
        /\ last_call.op = "resume_session" /\ last_call.arg = id
        /\ sessions[id].is_archived = 1
        /\ sessions[id].status = "active"

-----------------------------------------------------------------------------
\* Merges into the context by concurrent callers, each with its own
\* AgentPersistence resumed on a session: the wrapper reads the context in one
\* connection scope and writes the merged field in another

MergeOperations == {"add_ports", "add_service", "set_flag", "add_notes"}

\* the column each operation passes to update_lab_context
merge_field(op) ==
    CASE op = "add_ports" -> "open_ports"
      [] op = "add_service" -> "services"
      [] op = "set_flag" -> "flags"
      [] op = "add_notes" -> "notes"

\* the value each operation makes of the context it read, for the call
\* add_ports([80, 22]), add_service(80, 'http', '1.0'), set_flag('user_flag', 'A'),
\* add_notes('a')
merge_value(op, context) ==
    CASE op = "add_ports" -> merged_ports(context, <<80, 22>>)
      [] op = "add_service" -> merged_services(context, 80, "http", Some("1.0"))
      [] op = "set_flag" -> merged_flags(context, "user_flag", "A")
      [] op = "add_notes" -> merged_notes(context, <<"a">>)

\* context = self.manager.get_lab_context(self.current_session_id)
lab_merge_read(c, id, op) ==
    /\ calls[c].pc = "idle"
    /\ HasSessionRow(id)
    /\ calls' = [calls EXCEPT ![c] =
                    [pc |-> "read", session_id |-> id, op |-> op,
                     context |-> get_lab_context(lab_context, id)]]
    /\ UNCHANGED <<sessions, messages, lab_context, current_session_id,
                   agent_current_session_id, clock, txn, ops, last_call>>

\* faulty variant: every column is rewritten from the context that was read
lab_merge_write_whole_row(c) ==
    /\ calls[c].pc = "read"
    /\ LET i == current_context_index(lab_context, calls[c].session_id)
           field == merge_field(calls[c].op)
           args == [f \in ContextFields |->
                       IF f = field THEN Some(merge_value(calls[c].op, calls[c].context))
                       ELSE TheValue(calls[c].context)[f]]
       IN lab_context' = [lab_context EXCEPT ![i] = replaced_context_row(@, args, clock)]
    /\ calls' = [calls EXCEPT ![c].pc = "returned"]
    /\ UNCHANGED <<sessions, messages, current_session_id, agent_current_session_id,
                   clock, txn, ops, last_call>>

\* self.manager.update_lab_context(session_id=..., <field>=<merged value>)
lab_merge_write(c) ==
    /\ calls[c].pc = "read"
    /\ lab_context' =
           update_lab_context(
               lab_context, calls[c].session_id,
               [NoArgs EXCEPT ![merge_field(calls[c].op)] =
                   Some(merge_value(calls[c].op, calls[c].context))],
               clock)
    /\ calls' = [calls EXCEPT ![c].pc = "returned"]
    /\ UNCHANGED <<sessions, messages, current_session_id, agent_current_session_id,
                   clock, txn, ops, last_call>>

NoCallerYet == \A c \in Callers : calls[c].pc = "idle"

\* SpecMerge: sessions are started and given ports and a flag; then two callers
\* run one merge each, on the same session or not, in every interleaving of
\* their reads and writes
NextMerge ==
    \/ \E id \in SessionIds : NoCallerYet /\ Free(start_session(id))
    \/ NoCallerYet /\ Free(add_ports(<<443>>))
    \/ NoCallerYet /\ Free(set_flag("root_flag", "B"))
    \/ \E c \in Callers, id \in SessionIds, op \in MergeOperations : lab_merge_read(c, id, op)
    \/ \E c \in Callers : lab_merge_write(c)

SpecMerge == Init /\ [][NextMerge]_vars

\* what the call of op adds is in the stored context of session id
Added(op, id) ==
    LET stored == TheValue(StoredContext(id))
        ports == or_default(stored.open_ports, <<>>)
        services == or_default(stored.services, <<>>)
        flags == or_default(stored.flags, EmptyTable)
    IN CASE op = "add_ports" -> {80, 22} \subseteq set(ports)
         [] op = "add_service" ->
                \E i \in DOMAIN services :
                    services[i] = [port |-> 80, service |-> "http", version |-> Some("1.0")]
         [] op = "set_flag" -> "user_flag" \in DOMAIN flags /\ flags["user_flag"] = "A"
         [] op = "add_notes" -> stored.notes = Some(<<"a">>)

\* the two callers merged into different fields
DifferentFields == merge_field(calls["c1"].op) # merge_field(calls["c2"].op)

\* C37: concurrent merges into different fields of one session's context never
\* lose an update: under every interleaving of two such calls, once both have
\* returned the stored context holds both additions, each field as its caller
\* wrote it, together with what was stored in it before.
C37_MergesOfDifferentFieldsBothKept ==
    \A id \in SessionIds :
        (BothReturnedOn(id) /\ DifferentFields) =>
            \A c \in Callers :
                /\ Added(calls[c].op, id)
                /\ TheValue(StoredContext(id))[merge_field(calls[c].op)] =
                       Some(merge_value(calls[c].op, calls[c].context))

\* C37 witness: add_ports and set_flag both read the context of s1, which held
\* port 443 and the root flag, before either wrote; both additions are stored
C37_Witness ==
    /\ BothReturnedOn("s1")
    /\ calls["c1"].op = "add_ports" /\ calls["c2"].op = "set_flag"
    /\ calls["c1"].context = calls["c2"].context
    /\ TheValue(calls["c1"].context).open_ports = Some(<<443>>)
    /\ TheValue(StoredContext("s1")).open_ports = Some(<<22, 80, 443>>)
    /\ TheValue(StoredContext("s1")).flags =
           Some(("user_flag" :> "A") @@ ("root_flag" :> "B"))

-----------------------------------------------------------------------------
\* Sessions do not share rows

\* the operations the wrapper addresses to its current session
CurrentSessionOperations == LabContextOperations \cup {"add_message", "end_session"}

\* the operations addressed to the session they name
NamedSessionOperations == {"resume_session", "update_session_status", "archive_session"}

\* the session the step to the next state is addressed to, if any
Addressed ==
    CASE last_call'.op \in CurrentSessionOperations -> current_session_id
      [] last_call'.op = "update_session_status" -> Some(last_call'.arg[1])
      [] last_call'.op \in {"resume_session", "archive_session"} -> Some(last_call'.arg)
      [] OTHER -> None

\* session id has in the next state the rows it has now
RowsKept(id) ==
    /\ (id \in DOMAIN sessions) = (id \in DOMAIN sessions')
    /\ id \in DOMAIN sessions => sessions'[id] = sessions[id]
    /\ RowsOf(messages', id) = RowsOf(messages, id)
    /\ RowsOf(lab_context', id) = RowsOf(lab_context, id)

\* C38: sessions are isolated: for any two distinct sessions A and B, no message
\* append, lab-context merge, status change or archive addressed to A changes
\* B's session row, B's messages or B's context.
C38_SessionsIsolated ==
    [][last_call'.op \in CurrentSessionOperations \cup NamedSessionOperations =>
          \A B \in SessionIds : Some(B) # Addressed => RowsKept(B)]_vars

\* C38 witness: s1 was started a second before s2; the message just added is
\* addressed to s2, is stored for s2 and left the row of s1 as it was
C38_Witness ==
    /\ last_call.op = "add_message" /\ last_call.result = "ok"
    /\ current_session_id = Some("s2")
    /\ DOMAIN sessions = {"s1", "s2"}
    /\ Len(messages) = 1 /\ messages[1].session_id = "s2"
    /\ sessions["s1"].last_active = 0 /\ sessions["s1"].updated_at = 0
    /\ sessions["s2"].last_active = 1
    /\ Len(RowsOf(lab_context, "s1")) = 1

\* the write of a concurrent merge leaves the rows of every other session alone
ConcurrentMergeKeepsOtherSessions ==
    [][\A c \in Callers :
          (calls[c].pc = "read" /\ calls'[c].pc = "returned") =>
              \A B \in SessionIds \ {calls[c].session_id} : RowsKept(B)]_vars

\* the steps of a concurrent add_message leave the rows of every other session alone
ConcurrentAppendKeepsOtherSessions ==
    [][\A c \in Callers :
          (calls[c].pc = "in_scope" /\ calls'[c].pc # "in_scope") =>
              \A B \in SessionIds \ {calls[c].session_id} : RowsKept(B)]_vars

-----------------------------------------------------------------------------
\* What advances last_active

\* SpecActivity: the messages, a merge and the end of one wrapper's session, the
\* manager's status update and archive of it, and every read, while the clock
\* advances
NextActivity ==
    \/ Free(Tick)
    \/ Free(start_session("s1"))
    \/ Counted(add_role_message("user", "hola", None))
    \/ Counted(add_ports(<<80, 22>>))
    \/ Counted(end_session(FALSE))
    \/ Counted(resume_session("s1"))
    \/ Counted(set_session_status("s1", "completed"))
    \/ Counted(archive("s1"))
    \/ \E op \in ReadOperations : Counted(read(op, "s1"))
    \/ \E op \in WrapperReads : Counted(wrapper_read(op))

SpecActivity == Init /\ [][NextActivity]_vars

LastActiveKept ==
    \A id \in DOMAIN sessions :
        id \in DOMAIN sessions' /\ sessions'[id].last_active = sessions[id].last_active

\* C39: only message appends advance last_active: lab-context merges, status
\* updates, archive_session and every read operation leave each session's
\* last_active and the stored messages unchanged, and lab-context merges leave
\* the whole session row unchanged.
C39_OnlyAppendsAdvanceLastActive ==
    /\ [][\A id \in DOMAIN sessions \cap DOMAIN sessions' :
             sessions'[id].last_active # sessions[id].last_active =>
                 /\ last_call'.op = "add_message"
                 /\ current_session_id = Some(id)
                 /\ sessions'[id].last_active > sessions[id].last_active
                 /\ \E m \in NewMessages(messages, messages') : m.session_id = id]_vars
    /\ [][last_call'.op \in LabContextOperations \cup ReadOperations \cup WrapperReads \cup
                            {"update_session_status", "archive_session", "end_session",
                             "resume_session"} =>
             messages' = messages /\ LastActiveKept]_vars
    /\ [][last_call'.op \in LabContextOperations => sessions' = sessions]_vars
    /\ [][last_call'.op \in ReadOperations \cup WrapperReads =>
             sessions' = sessions /\ lab_context' = lab_context]_vars

\* C39 witness: a second after its message the session was archived: updated_at
\* moved, last_active and the message did not
C39_Witness ==
    /\ last_call.op = "archive_session" /\ last_call.arg = "s1"
    /\ "s1" \in DOMAIN sessions
    /\ sessions["s1"].status = "archived"
    /\ sessions["s1"].updated_at = 1
    /\ sessions["s1"].last_active = 0
    /\ Len(messages) = 1 /\ messages[1].timestamp = 0

\* a message appended a second after the session was started advanced last_active
AppendAdvancedLastActive ==
    /\ last_call.op = "add_message" /\ last_call.result = "ok"
    /\ current_session_id = Some("s1")
    /\ sessions["s1"].updated_at = 0
    /\ sessions["s1"].last_active = 1

====
